---- MODULE Spec2Model ----
(***************************************************************************)
(* asphalt-sqlalchemy: the session lifecycle of SQLAlchemyComponent.       *)
(*                                                                         *)
(* Two revisions of the component are modelled side by side:               *)
(*   "v4"  src/src/asphalt/sqlalchemy/component.py   (ThreadPoolExecutor,  *)
(*         ctx.add_teardown_callback(..., pass_exception=True))            *)
(*   "v5"  src/src/asphalt/sqlalchemy/_component.py  (CapacityLimiter,     *)
(*         to_thread.run_sync, sys.exc_info())                             *)
(*                                                                         *)
(* Threads are numbered: 0 is the event-loop thread that runs the scopes,  *)
(* 1..workers are the worker threads of the commit executor, -1 stands for *)
(* "has not run".  Scopes (asphalt Contexts) are numbered from 1; 0 stands *)
(* for "no scope" (no parent, no current context).                         *)
(*                                                                         *)
(* Specifications:                                                         *)
(*   Spec       a constructed component: start, sessions, teardown, stop   *)
(*   SpecLoad   a started synchronous component serving sibling scopes     *)
(*              under the root context (scope 0), commits queueing up      *)
(*   SpecDrain  request scopes with sessions in use being torn down, under *)
(*              fair scheduling of the hooks and the worker threads        *)
(*   SpecReuse  a started component serving one scope after another, the   *)
(*              consumer closing and reusing its session                   *)
(*   SpecCancel SpecLoad with the tearing-down task cancelled at an await  *)
(*   SpecStart  __init__ and start() statement by statement                *)
(*   SpecCtor   __init__ alone, over its arguments, the legacy one included *)
(*   SpecSqlite the sqlite listeners and the driver's transaction framing   *)
(*   SpecManager  the legacy AsyncSession used as a context manager         *)
(*   SpecConnection  the connection resource of the legacy component        *)
(***************************************************************************)
EXTENDS Integers, Sequences, FiniteSets, TLC

MaxScopes == 2
MaxSessions == 2
MaxWorkers == 1

Scopes == 1..MaxScopes
Sessions == 1..MaxSessions

VARIABLES
    rev,              \* revision of the component: "v4" | "v5"
    bind,             \* the bind resolved by __init__
    workers,          \* commit_executor_workers
    comp,             \* "unstarted" | "started" | "failed" | "stopped"
    compScope,        \* the scope start() ran in (0: none)
    resources,        \* resource types published under resource_name
    commit_executor,  \* "unset" | "running" | "shutdown"
    queue,            \* work items submitted to the executor, oldest first
    busy,             \* worker thread -> session whose call it executes (0: idle)
    disposals,        \* number of engine.dispose() calls
    scopes,           \* scope id -> its record
    sessions,         \* session id -> its record
    ctor,             \* the outcome of __init__
    startup,          \* the progress of start() through its ready callback
    foreign,          \* resources (type, name) others registered in the scope
    db                \* a physical connection of the engine, as the driver has it

vars == <<rev, bind, workers, comp, compScope, resources, commit_executor,
          queue, busy, disposals, scopes, sessions, ctor, startup, foreign,
          db>>

\* What the constructor fixes; no operation on a started component changes it.
config == <<rev, bind, workers, ctor, startup, foreign, db>>

----------------------------------------------------------------------------
(* Pure parts of the component.                                            *)

\* isinstance(self.engine, AsyncEngine): the engine of an AsyncConnection is
\* an AsyncEngine, the engine of a Connection is an Engine.
IsAsyncEngine(b) == b \in {"AsyncEngine", "AsyncConnection"}

\* The exception the teardown hook sees.  v4 receives it as its argument
\* (pass_exception=True), v5 reads sys.exc_info()[1] while the scope unwinds.
HookException(c) == scopes[c].exc

TeardownCall_Inverted(exception, in_transaction) ==
    IF ~in_transaction THEN "none"
    ELSE IF exception = "none" THEN "rollback" ELSE "commit"

TeardownCall_ExceptionOnly(exception, in_transaction) ==
    IF ~in_transaction THEN "none"
    ELSE IF exception # "error" THEN "commit" ELSE "rollback"

TeardownCall_NoTxCheck(exception, in_transaction) ==
    IF exception = "none" THEN "commit" ELSE "rollback"

\* The branch of teardown_session: which call, if any, the hook makes.
TeardownCall(exception, in_transaction) ==
    IF ~in_transaction THEN "none"
    ELSE IF exception = "none" THEN "commit" ELSE "rollback"

TeardownScope_Component(ctx) == compScope

\* The scope the hook is registered on: the ctx handed to create_session
\* (v4), the current context of the caller (v5).
TeardownScope(ctx) == ctx

add_teardown_callback_Front(hooks, h) == <<h>> \o hooks

add_teardown_callback_Twice(hooks, h) == Append(Append(hooks, h), h)

\* Context.add_teardown_callback: the callback is appended once.
add_teardown_callback(hooks, h) == Append(hooks, h)

\* copy_context() in the hook: the snapshot holds the hook's current scope.
copy_context(c) == c

RunsOn_Loop(w) == 0

\* run_in_executor(self.commit_executor, ...) / to_thread.run_sync(...): the
\* callable runs on the worker thread that took the work item.
RunsOn(w) == w

AwaitRunsOn_Worker(caller) == 1

\* await session.commit() / await session.rollback() of an asynchronous
\* session: the call runs on the thread of the task that awaits it.
AwaitRunsOn(caller) == caller

ContextRun_Native(snapshot, native) == native

\* context.run(session.commit): the callable observes the snapshot, not the
\* native context of the thread that executes it.
ContextRun(snapshot, native) == snapshot

\* The pool connections a session checks out when its transaction begins:
\* one from the pool of an engine bind, none when the bind is a connection
\* the caller supplied.
Checkout(b) == IF b \in {"Engine", "AsyncEngine"} THEN 1 ELSE 0

\* session.commit() / session.rollback() returning (ok) or raising; the
\* end of the transaction returns the connection to the pool.
CallEffect(sess, call, ok) ==
    IF ~ok THEN [sess EXCEPT !.callExc = "dberror"]
    ELSE IF call = "commit"
         THEN [sess EXCEPT !.persisted = sess.persisted \/ sess.dirty,
                           !.dirty = FALSE, !.inTx = FALSE, !.conn = 0]
         ELSE [sess EXCEPT !.dirty = FALSE, !.inTx = FALSE, !.conn = 0]

\* session.close(): releases the connection, discards an open transaction.
SessionClose(sess) ==
    [sess EXCEPT !.closed = TRUE, !.closes = sess.closes + 1,
                 !.inTx = FALSE, !.dirty = FALSE, !.conn = 0]

HookExit_NoFinally(sess, exc) ==
    IF exc = "none"
    THEN [SessionClose(sess) EXCEPT !.pc = "done", !.hookExc = exc]
    ELSE [sess EXCEPT !.pc = "done", !.hookExc = exc]

HookExit_Swallow(sess, exc) ==
    [SessionClose(sess) EXCEPT !.pc = "done", !.hookExc = "none"]

HookExit_Reraise(sess, exc) ==
    [SessionClose(sess) EXCEPT !.pc = "done",
        !.hookExc = IF exc # "none" THEN exc ELSE sess.exception]

\* The "finally: session.close()" of teardown_session and the hook's exit:
\* the session is closed, then the pending exception (if any) propagates.
HookExit(sess, exc) ==
    [SessionClose(sess) EXCEPT !.pc = "done", !.hookExc = exc]

\* What the caller of the scope observes once the scope is closed: the
\* terminating exception, unless a teardown callback raised.
ScopeOutcome(exc, failed) == IF failed THEN "TeardownError" ELSE exc

----------------------------------------------------------------------------
(* SQLAlchemyComponent.__init__                                            *)

BindKinds == {"Engine", "Connection", "AsyncEngine", "AsyncConnection"}

\* The bind argument: absent, one of the four accepted kinds, or an object
\* of another type, which may be falsy ("", 0, an empty container).
BindArgs == {"none", "other", "other_falsy"} \cup BindKinds

\* "if bind:" tests the truth value of the argument.
Truthy(b) == b \notin {"none", "other_falsy"}

\* The url argument by what engine creation does with it: absent; a driver
\* for synchronous use only; for asynchronous use only; for neither; a url
\* every creation rejects with another error; a url whose asynchronous
\* creation is refused for the mode and whose synchronous creation fails
\* with another error.
Urls == {"none", "sync", "async", "unsupported", "invalid", "sync_invalid"}

\* create_engine(url) (async FALSE) / create_async_engine(url) (async TRUE):
\* "ok", or the exception raised.  InvalidRequestError is the driver not
\* supporting the mode.
CreateEngine(url, async) ==
    IF url = "invalid" THEN "ArgumentError"
    ELSE IF url = "sync_invalid"
    THEN IF async THEN "InvalidRequestError" ELSE "ArgumentError"
    ELSE IF url = "unsupported" THEN "InvalidRequestError"
    ELSE IF (async /\ url = "async") \/ (~async /\ url = "sync") THEN "ok"
    ELSE "InvalidRequestError"

Supports(url, async) == CreateEngine(url, async) = "ok"

EngineKind(async) == IF async THEN "AsyncEngine" ELSE "Engine"

\* The session factories __init__ builds for the resolved engine.
Factories(r, async) ==
    IF async
    THEN IF r = "v5" THEN {"_sessionmaker", "_async_sessionmaker"}
         ELSE {"_async_sessionmaker"}
    ELSE {"_sessionmaker"}

\* The constructor raised error after the creation attempts tried (the
\* modes attempted, in order: TRUE asynchronous, FALSE synchronous).
CtorError(error, tried) ==
    [state |-> "error", error |-> error, attempts |-> Len(tried),
     tried |-> tried, bind |-> "unset", factories |-> {}]

CtorOk(r, b, tried) ==
    [state |-> "ok", error |-> "none", attempts |-> Len(tried),
     tried |-> tried, bind |-> b, factories |-> Factories(r, IsAsyncEngine(b))]

\* The url branch of __init__ once the url is known to be present.
FromUrl_AsyncFirst(r, url, prefer_async) ==
    LET first == CreateEngine(url, TRUE)
        second == CreateEngine(url, FALSE)
    IN IF first = "ok" THEN CtorOk(r, EngineKind(TRUE), <<TRUE>>)
       ELSE IF first # "InvalidRequestError" THEN CtorError(first, <<TRUE>>)
       ELSE IF second = "ok" THEN CtorOk(r, EngineKind(FALSE), <<TRUE, FALSE>>)
       ELSE CtorError(second, <<TRUE, FALSE>>)

FromUrl_Retry(r, url, prefer_async) ==
    LET first == CreateEngine(url, prefer_async)
        second == CreateEngine(url, ~prefer_async)
    IN IF first = "ok" THEN CtorOk(r, EngineKind(prefer_async), <<prefer_async>>)
       ELSE IF second = "ok"
       THEN CtorOk(r, EngineKind(~prefer_async), <<prefer_async, ~prefer_async>>)
       ELSE CtorError(second, <<prefer_async, ~prefer_async>>)

\* try: create the engine in the preferred mode; except InvalidRequestError:
\* create it in the other mode.  Any other exception, and any exception of
\* the second creation, leaves the constructor.
FromUrl(r, url, prefer_async) ==
    LET first == CreateEngine(url, prefer_async)
        second == CreateEngine(url, ~prefer_async)
    IN IF first = "ok" THEN CtorOk(r, EngineKind(prefer_async), <<prefer_async>>)
       ELSE IF first # "InvalidRequestError"
       THEN CtorError(first, <<prefer_async>>)
       ELSE IF second = "ok"
       THEN CtorOk(r, EngineKind(~prefer_async), <<prefer_async, ~prefer_async>>)
       ELSE CtorError(second, <<prefer_async, ~prefer_async>>)

ComponentInit_EngineFirst(r, url, b, prefer_async) ==
    IF Truthy(b)
    THEN IF b \in BindKinds THEN CtorOk(r, b, <<>>)
         ELSE CtorError("TypeError: Incompatible bind argument", <<>>)
    ELSE LET c == FromUrl(r, url, prefer_async)
         IN IF url = "none"
            THEN CtorError("TypeError: both \"url\" and \"bind\" cannot be None",
                           c.tried)
            ELSE c

ComponentInit_UrlFirst(r, url, b, prefer_async) ==
    IF url # "none" THEN FromUrl(r, url, prefer_async)
    ELSE IF Truthy(b)
    THEN IF b \in BindKinds THEN CtorOk(r, b, <<>>)
         ELSE CtorError("TypeError: Incompatible bind argument", <<>>)
    ELSE CtorError("TypeError: both \"url\" and \"bind\" cannot be None", <<>>)

\* __init__(url, bind, prefer_async): a truthy bind is classified by its
\* type; otherwise the url must be present, and an engine is created from
\* it.  attempts counts the calls of create_engine / create_async_engine.
ComponentInit(r, url, b, prefer_async) ==
    IF Truthy(b)
    THEN IF b \in BindKinds THEN CtorOk(r, b, <<>>)
         ELSE CtorError("TypeError: Incompatible bind argument", <<>>)
    ELSE IF url = "none"
         THEN CtorError("TypeError: both \"url\" and \"bind\" cannot be None", <<>>)
         ELSE FromUrl(r, url, prefer_async)

\* The other constructor arguments: the dialect the url names, the
\* check_same_thread entry of engine_args["connect_args"] and the
\* expire_on_commit entry of session_args ("absent": the caller gave none),
\* resource_name, and commit_executor_workers (0: the caller gave none).
Given3 == {"absent", "true", "false"}

Options ==
    [dialect : {"sqlite", "postgresql"}, check_same_thread : Given3,
     expire_on_commit : Given3, resource_name : {"default", "alternate"},
     commit_executor_workers : {0, MaxWorkers}]

DefaultOptions ==
    [dialect |-> "postgresql", check_same_thread |-> "absent",
     expire_on_commit |-> "absent", resource_name |-> "default",
     commit_executor_workers |-> 0]

\* The options of a component in service: its executor has MaxWorkers
\* threads.
ServiceOptions == [DefaultOptions EXCEPT !.commit_executor_workers = MaxWorkers]

\* The default of the commit_executor_workers parameter of __init__ (v4,
\* v5), the size of the ThreadPoolExecutor start() creates (legacy).
DefaultWorkersV4 == 5
DefaultWorkersV5 == 50
DefaultWorkersLegacy == 5

\* The bound on concurrently running commit / rollback calls:
\* ThreadPoolExecutor(self.commit_executor_workers) (v4),
\* CapacityLimiter(commit_executor_workers) (v5), ThreadPoolExecutor(5)
\* unless an executor was supplied (legacy).
CommitWorkers(r, given) ==
    IF given # 0 THEN given
    ELSE IF r = "v5" THEN DefaultWorkersV5
    ELSE IF r = "v4" THEN DefaultWorkersV4
    ELSE DefaultWorkersLegacy

ConnectArgs_Forced(dialect, given) ==
    IF dialect = "sqlite" THEN "false" ELSE given

\* connect_args.setdefault("check_same_thread", False) for a sqlite url; the
\* value create_engine / create_async_engine receives.
ConnectArgs(dialect, given) ==
    IF dialect = "sqlite" /\ given = "absent" THEN "false" ELSE given

apply_sqlite_hacks_ConnectOnly(dialect) ==
    IF dialect = "sqlite" THEN {"connect"} ELSE {}

\* if url.get_dialect().name == "sqlite": apply_sqlite_hacks(self.engine);
\* the events of the (synchronous) engine that get a listener.
apply_sqlite_hacks(dialect) ==
    IF dialect = "sqlite" THEN {"connect", "begin"} ELSE {}

ExpireOnCommit_Default(r, given) ==
    IF given = "absent" THEN "false" ELSE given

\* session_args["expire_on_commit"] = False; the legacy component has
\* session.setdefault('expire_on_commit', False).
ExpireOnCommit(r, given) ==
    IF r = "legacy"
    THEN IF given = "absent" THEN "false" ELSE given
    ELSE "false"

\* The sync_session_class of the asynchronous session factory: the
\* secondary sessionmaker in v5, SQLAlchemy's Session class in v4.
SyncSessionClass(r, async) ==
    IF ~async THEN "none" ELSE IF r = "v5" THEN "_sessionmaker" ELSE "Session"

\* What __init__ does around the bind resolution c: the connect options it
\* passes to the engine creation, the listeners it installs on the engine
\* it created, and the session factory it builds last.
InitRest(r, c, o) ==
    [connect_args |-> IF c.tried # <<>>
                      THEN ConnectArgs(o.dialect, o.check_same_thread)
                      ELSE "unset",
     listeners |-> IF c.state = "ok" /\ c.tried # <<>> /\ r # "legacy"
                   THEN apply_sqlite_hacks(o.dialect) ELSE {},
     expire_on_commit |-> IF c.state = "ok"
                          THEN ExpireOnCommit(r, o.expire_on_commit)
                          ELSE "unset",
     factory_bind |-> IF c.state # "ok" THEN "unset"
                      ELSE IF r = "legacy" THEN "none" ELSE "bind",
     sync_session_class |-> IF c.state = "ok"
                            THEN SyncSessionClass(r, IsAsyncEngine(c.bind))
                            ELSE "unset",
     resource_name |-> o.resource_name]

\* The arguments a constructor call was given.
Given(url, b, prefer_async, o) ==
    [url |-> url, arg |-> b, prefer_async |-> prefer_async, opts |-> o]

\* A component constructed around bind b.
Constructed(r, b) ==
    CtorOk(r, b, <<>>) @@ InitRest(r, CtorOk(r, b, <<>>), ServiceOptions)
        @@ Given("none", b, TRUE, ServiceOptions)

NotConstructed ==
    [state |-> "new", error |-> "none", attempts |-> 0, tried |-> <<>>,
     bind |-> "unset", factories |-> {}, connect_args |-> "unset",
     listeners |-> {}, expire_on_commit |-> "unset",
     factory_bind |-> "unset", sync_session_class |-> "unset",
     resource_name |-> "unset"]
        @@ Given("unset", "unset", TRUE, DefaultOptions)

----------------------------------------------------------------------------
(* State.                                                                  *)

NewScope ==
    [state |-> "unopened", parent |-> 0, exc |-> "none", hooks |-> <<>>,
     pos |-> 0, failed |-> FALSE, outcome |-> "none"]

NewSession ==
    [state |-> "absent", owner |-> 0, inTx |-> FALSE, dirty |-> FALSE,
     persisted |-> FALSE, closed |-> FALSE, pc |-> "idle",
     exception |-> "none", txAtEnd |-> FALSE, call |-> "none",
     runs |-> 0, dispatches |-> 0, commits |-> 0, rollbacks |-> 0,
     closes |-> 0, callExc |-> "none", hookExc |-> "none",
     thread |-> -1, snapshot |-> 0, observed |-> 0,
     conn |-> 0, userClosed |-> FALSE,
     bind |-> "unset", expire_on_commit |-> "unset"]

\* No physical connection yet.  framing: the driver frames transactions by
\* itself (pysqlite's isolation_level is not None); saTx / saNested: the
\* transaction and the savepoint SQLAlchemy has begun; dbTx: the transaction
\* the database has ("none", "explicit" after BEGIN, "savepoint" when a
\* SAVEPOINT opened it); writes: what became of the rows written in saTx.
NewDb ==
    [owner |-> 0, framing |-> TRUE, saTx |-> FALSE, saNested |-> FALSE,
     dbTx |-> "none", writes |-> "none", nestedRollbacks |-> 0]

\* start() has not been called: no callback chosen, called or completed.
NewStartup ==
    [pc |-> "idle", scope |-> 0, pos |-> 1, cb |-> "none", calls |-> 0,
     args |-> <<>>, completed |-> FALSE, exc |-> "none", registered |-> {}]

Init ==
    /\ rev \in {"v4", "v5"}
    /\ bind \in {"Engine", "Connection", "AsyncEngine", "AsyncConnection"}
    /\ workers = MaxWorkers
    /\ comp = "unstarted"
    /\ compScope = 0
    /\ resources = {}
    /\ commit_executor = IF rev = "v5" THEN "running" ELSE "unset"
    /\ queue = <<>>
    /\ busy = [w \in 1..MaxWorkers |-> 0]
    /\ disposals = 0
    /\ scopes = [c \in Scopes |-> NewScope]
    /\ sessions = [s \in Sessions |-> NewSession]
    /\ ctor = Constructed(rev, bind)
    /\ startup = NewStartup
    /\ foreign = {}
    /\ db = NewDb

SessionHook(s) == [kind |-> "session", sid |-> s]
ShutdownHook == [kind |-> "shutdown", sid |-> 0]
DisposeHook == [kind |-> "dispose", sid |-> 0]

\* The callback a closing scope runs next (callbacks run newest first).
CurrentHook(c) == scopes[c].hooks[scopes[c].pos]

Running(c, kind) ==
    /\ scopes[c].state = "closing"
    /\ scopes[c].pos > 0
    /\ CurrentHook(c).kind = kind

Advance_StopOnRaise(sc, raised) ==
    IF sc.pos = 1 \/ raised
    THEN [sc EXCEPT !.pos = 0, !.failed = sc.failed \/ raised,
                    !.state = "closed",
                    !.outcome = ScopeOutcome(sc.exc, sc.failed \/ raised)]
    ELSE [sc EXCEPT !.pos = sc.pos - 1]

\* The scope record after its current callback has returned or raised; after
\* the last one the scope is closed and its caller resumes.
Advance(sc, raised) ==
    LET failed == sc.failed \/ raised
    IN IF sc.pos = 1
       THEN [sc EXCEPT !.pos = 0, !.failed = failed, !.state = "closed",
                       !.outcome = ScopeOutcome(sc.exc, failed)]
       ELSE [sc EXCEPT !.pos = sc.pos - 1, !.failed = failed]

CompAfter_Restartable(c, sc) ==
    IF c = compScope /\ comp = "started" /\ sc.state = "closed"
    THEN "unstarted" ELSE comp

\* The component's state once scope c has become sc: it has stopped when
\* the scope it was started in is closed.
CompAfter(c, sc) ==
    IF c = compScope /\ comp = "started" /\ sc.state = "closed"
    THEN "stopped" ELSE comp

RECURSIVE IsAncestor(_, _)
IsAncestor(a, c) ==
    IF c = a THEN TRUE
    ELSE IF c = 0 THEN FALSE
    ELSE IsAncestor(a, scopes[c].parent)

----------------------------------------------------------------------------
(* Scopes (asphalt Context), as the tests drive them.                      *)

NextScope == CHOOSE c \in Scopes :
    /\ scopes[c].state = "unopened"
    /\ \A d \in Scopes : d < c => scopes[d].state # "unopened"

\* async with Context() as ctx: the first scope is the root, in which the
\* component is started; every later one is opened, once the component has
\* started, inside a scope that is open.
OpenScope(p) ==
    /\ \E c \in Scopes : scopes[c].state = "unopened"
    /\ IF NextScope = 1
       THEN p = 0
       ELSE comp = "started" /\ p \in Scopes /\ scopes[p].state = "open"
    /\ scopes' = [scopes EXCEPT ![NextScope] =
                    [NewScope EXCEPT !.state = "open", !.parent = p]]
    /\ UNCHANGED <<config, comp, compScope, resources, commit_executor,
                   queue, busy, disposals, sessions>>

\* The block of the scope ends, normally or with an exception (a cancellation
\* included): the scope starts running its teardown callbacks, and with
\* none to run it is closed at once.
EndScope(c, e) ==
    /\ scopes[c].state = "open"
    /\ \A d \in Scopes : scopes[d].parent = c => scopes[d].state \notin {"open", "closing"}
    /\ LET sc == IF scopes[c].hooks = <<>>
                 THEN [scopes[c] EXCEPT !.state = "closed", !.exc = e,
                                        !.outcome = ScopeOutcome(e, FALSE)]
                 ELSE [scopes[c] EXCEPT !.state = "closing", !.exc = e,
                                        !.pos = Len(scopes[c].hooks)]
       IN /\ scopes' = [scopes EXCEPT ![c] = sc]
          /\ comp' = CompAfter(c, sc)
    /\ UNCHANGED <<config, compScope, resources, commit_executor,
                   queue, busy, disposals, sessions>>

----------------------------------------------------------------------------
(* SQLAlchemyComponent.start()                                             *)

\* The resource types start() publishes under resource_name.
Published(r, async) ==
    IF async
    THEN IF r = "v4"
         THEN {"AsyncEngine", "async_sessionmaker", "AsyncSession"}
         ELSE {"AsyncEngine", "sessionmaker", "async_sessionmaker", "AsyncSession"}
    ELSE {"Engine", "sessionmaker", "Session"}

\* Whether the ready-callback step of start() raises.  cb is "none" (no
\* callback configured), "returns" or "raises".  In v4 the asynchronous
\* branch reads self._sessionmaker, which __init__ sets on the synchronous
\* path only.
ReadyFails(r, async, cb) ==
    \/ cb = "raises"
    \/ cb # "none" /\ r = "v4" /\ async

StartHooks_ShutdownAfterYield(r, b) ==
    IF r = "v4"
    THEN IF IsAsyncEngine(b) THEN <<DisposeHook>> ELSE <<DisposeHook, ShutdownHook>>
    ELSE IF IsAsyncEngine(b) /\ b = "AsyncEngine" THEN <<DisposeHook>> ELSE <<>>

\* The teardown callbacks start() leaves on its scope, oldest first.
StartHooks(r, b) ==
    IF r = "v4"
    THEN IF IsAsyncEngine(b) THEN <<DisposeHook>> ELSE <<ShutdownHook, DisposeHook>>
    ELSE IF IsAsyncEngine(b) /\ b = "AsyncEngine" THEN <<DisposeHook>> ELSE <<>>

Start(c, cb) ==
    /\ comp = "unstarted"
    /\ scopes[c].state = "open"
    /\ scopes[c].parent = 0
    /\ IF ReadyFails(rev, IsAsyncEngine(bind), cb)
       THEN /\ comp' = "failed"
            /\ UNCHANGED <<compScope, resources, commit_executor, scopes>>
       ELSE /\ comp' = "started"
            /\ compScope' = c
            /\ resources' = Published(rev, IsAsyncEngine(bind))
            /\ commit_executor' =
                  IF rev = "v4" /\ ~IsAsyncEngine(bind) THEN "running"
                  ELSE commit_executor
            /\ scopes' = [scopes EXCEPT ![c].hooks = @ \o StartHooks(rev, bind)]
    /\ UNCHANGED <<config, queue, busy, disposals, sessions>>

StopCall_DisposeAlways(r, b) == "dispose"

\* The call the stop sequence makes on the bind.  v4: bind.dispose() if the
\* bind is an Engine or an AsyncEngine; v5: self._engine.dispose is the
\* engine resource's teardown callback if the bind is an AsyncEngine.  A
\* Connection or AsyncConnection gets no call.
StopCall(r, b) ==
    IF b = "AsyncEngine" \/ (r = "v4" /\ b = "Engine") THEN "dispose" ELSE "none"

\* The part of start() after the yield (v4), the teardown_callback of the
\* engine resource (v5): the engine's pool is disposed.
RunDispose(c) ==
    /\ Running(c, "dispose")
    /\ disposals' = IF StopCall(rev, bind) = "dispose"
                    THEN disposals + 1 ELSE disposals
    /\ scopes' = [scopes EXCEPT ![c] = Advance(@, FALSE)]
    /\ comp' = CompAfter(c, Advance(scopes[c], FALSE))
    /\ UNCHANGED <<config, compScope, resources, commit_executor,
                   queue, busy, sessions>>

\* self.commit_executor.shutdown, a teardown callback of the component's
\* scope: it waits for the submitted work and stops the pool.
RunShutdown(c) ==
    /\ Running(c, "shutdown")
    /\ queue = <<>>
    /\ \A w \in 1..MaxWorkers : busy[w] = 0
    /\ commit_executor' = "shutdown"
    /\ scopes' = [scopes EXCEPT ![c] = Advance(@, FALSE)]
    /\ comp' = CompAfter(c, Advance(scopes[c], FALSE))
    /\ UNCHANGED <<config, compScope, resources, queue, busy,
                   disposals, sessions>>

----------------------------------------------------------------------------
(* create_session / create_async_session and the consumer's use.           *)

SessionBind_Engine(c) ==
    IF c.factory_bind # "bind" THEN "none"
    ELSE IF c.bind = "Connection" THEN "Engine"
    ELSE IF c.bind = "AsyncConnection" THEN "AsyncEngine" ELSE c.bind

\* self._sessionmaker() / self._async_sessionmaker(): the new session has
\* the bind the factory was built with in __init__ (bind=self._bind).
SessionBind(c) == IF c.factory_bind = "bind" THEN c.bind ELSE "none"

NextSession == CHOOSE s \in Sessions :
    /\ sessions[s].state = "absent"
    /\ \A t \in Sessions : t < s => sessions[t].state # "absent"

\* The resource factory runs for the scope that asks for a session: a new
\* session is made and its teardown hook is registered before it is returned.
CreateSession(c) ==
    /\ comp = "started"
    /\ resources \cap {"Session", "AsyncSession"} # {}
    /\ scopes[c].state = "open"
    /\ IsAncestor(compScope, c)
    /\ \E s \in Sessions : sessions[s].state = "absent"
    /\ sessions' = [sessions EXCEPT ![NextSession] =
                      [NewSession EXCEPT !.state = "live", !.owner = c,
                          !.bind = SessionBind(ctor),
                          !.expire_on_commit = ctor.expire_on_commit]]
    /\ scopes' = [scopes EXCEPT ![TeardownScope(c)].hooks =
                      add_teardown_callback(@, SessionHook(NextSession))]
    /\ UNCHANGED <<config, comp, compScope, resources, commit_executor,
                   queue, busy, disposals>>

\* Consumer code in the scope works through the session (execute, add and
\* flush): a transaction begins and holds changes.
Execute(s) ==
    /\ sessions[s].state = "live"
    /\ scopes[sessions[s].owner].state = "open"
    /\ sessions[s].pc = "idle"
    /\ ~sessions[s].inTx
    /\ sessions' = [sessions EXCEPT ![s].inTx = TRUE, ![s].dirty = TRUE,
                                    ![s].conn = Checkout(bind)]
    /\ UNCHANGED <<config, comp, compScope, resources, commit_executor,
                   queue, busy, disposals, scopes>>

\* Consumer code rolls the session back itself (session.rollback()).
ConsumerRollback(s) ==
    /\ sessions[s].state = "live"
    /\ scopes[sessions[s].owner].state = "open"
    /\ sessions[s].pc = "idle"
    /\ sessions[s].inTx
    /\ sessions' = [sessions EXCEPT ![s].inTx = FALSE, ![s].dirty = FALSE,
                                    ![s].conn = 0]
    /\ UNCHANGED <<config, comp, compScope, resources, commit_executor,
                   queue, busy, disposals, scopes>>

\* Consumer code closes the session itself (session.close()): the
\* transaction is discarded and the connection goes back to the pool; the
\* session stays usable.
ConsumerClose(s) ==
    /\ sessions[s].state = "live"
    /\ scopes[sessions[s].owner].state = "open"
    /\ sessions[s].pc = "idle"
    /\ sessions' = [sessions EXCEPT ![s].inTx = FALSE, ![s].dirty = FALSE,
                                    ![s].conn = 0, ![s].userClosed = TRUE]
    /\ UNCHANGED <<config, comp, compScope, resources, commit_executor,
                   queue, busy, disposals, scopes>>

----------------------------------------------------------------------------
(* teardown_session of create_session (synchronous sessions).              *)

\* The hook's frame on entry: what it was given and what it decides.
Entered(sess, exception) ==
    [sess EXCEPT !.runs = sess.runs + 1,
                 !.exception = exception,
                 !.txAtEnd = sess.inTx,
                 !.call = TeardownCall(exception, sess.inTx)]

\* The session's hook has exited: the scope goes on to its next callback.
Exited(c, s, sess) ==
    /\ sessions' = [sessions EXCEPT ![s] = sess]
    /\ scopes' = [scopes EXCEPT ![c] = Advance(@, sess.hookExc # "none")]
    /\ comp' = CompAfter(c, Advance(scopes[c], sess.hookExc # "none"))

\* The hook up to its await: no transaction, and it only closes; otherwise
\* it snapshots the context and submits commit or rollback to the executor.
TeardownSessionSync(c) ==
    /\ ~IsAsyncEngine(bind)
    /\ Running(c, "session")
    /\ LET s == CurrentHook(c).sid
           sess == Entered(sessions[s], HookException(c))
       IN /\ sessions[s].pc \in {"idle", "done"}
          /\ IF sess.call = "none"
             THEN /\ Exited(c, s, HookExit(sess, "none"))
                  /\ UNCHANGED queue
             ELSE IF commit_executor # "running"
             THEN /\ Exited(c, s, HookExit(sess, "RuntimeError"))
                  /\ UNCHANGED queue
             ELSE /\ sessions' = [sessions EXCEPT ![s] =
                        [sess EXCEPT !.pc = "queued",
                                     !.dispatches = sess.dispatches + 1,
                                     !.snapshot = copy_context(c)]]
                  /\ queue' = Append(queue, s)
                  /\ UNCHANGED <<scopes, comp>>
    /\ UNCHANGED <<config, compScope, resources, commit_executor,
                   busy, disposals>>

RunWorkItem(w) ==
    LET s == Head(queue)
        sess == sessions[s]
    IN /\ busy' = [busy EXCEPT ![w] = s]
       /\ queue' = Tail(queue)
       /\ sessions' = [sessions EXCEPT ![s] =
             [sess EXCEPT !.pc = "running",
                 !.thread = RunsOn(w),
                 !.observed = ContextRun(sess.snapshot, 0),
                 !.commits = IF sess.call = "commit" THEN @ + 1 ELSE @,
                 !.rollbacks = IF sess.call = "rollback" THEN @ + 1 ELSE @]]
       /\ UNCHANGED <<config, comp, compScope, resources, commit_executor,
                      disposals, scopes>>

WorkerStart_Unbounded(w) ==
    /\ w \in 1..workers
    /\ queue # <<>>
    /\ RunWorkItem(w)

\* An idle worker thread takes the oldest work item and starts the call.
\* The pool's threads are interchangeable, so the idle thread that takes the
\* item is named as the lowest-numbered idle one.
WorkerStart(w) ==
    /\ w \in 1..workers
    /\ busy[w] = 0
    /\ \A v \in 1..(w - 1) : busy[v] # 0
    /\ queue # <<>>
    /\ RunWorkItem(w)

WorkerFinish_Lost(w, ok) ==
    /\ busy[w] # 0
    /\ sessions' = [sessions EXCEPT ![busy[w]] =
                       CallEffect(sessions[busy[w]], sessions[busy[w]].call, ok)]
    /\ busy' = [busy EXCEPT ![w] = 0]
    /\ UNCHANGED <<config, comp, compScope, resources, commit_executor,
                   queue, disposals, scopes>>

\* The call on the worker thread returns (ok) or raises.  The hook that
\* awaits it (pc "running") gets the result; a hook that has left its await
\* meanwhile does not.
WorkerFinish(w, ok) ==
    /\ busy[w] # 0
    /\ LET s == busy[w]
       IN sessions' = [sessions EXCEPT ![s] =
             [CallEffect(sessions[s], sessions[s].call, ok) EXCEPT
                 !.pc = IF sessions[s].pc = "running" THEN "returned" ELSE @]]
    /\ busy' = [busy EXCEPT ![w] = 0]
    /\ UNCHANGED <<config, comp, compScope, resources, commit_executor,
                   queue, disposals, scopes>>

\* The awaiting hook resumes with the call's result and runs its finally.
SyncResume(c) ==
    /\ Running(c, "session")
    /\ LET s == CurrentHook(c).sid
       IN /\ sessions[s].pc = "returned"
          /\ Exited(c, s, HookExit(sessions[s], sessions[s].callExc))
    /\ UNCHANGED <<config, compScope, resources, commit_executor,
                   queue, busy, disposals>>

----------------------------------------------------------------------------
(* teardown_session of create_async_session (asynchronous sessions).       *)

\* The hook up to its first await: commit or rollback is awaited in place.
TeardownSessionAsync(c) ==
    /\ IsAsyncEngine(bind)
    /\ Running(c, "session")
    /\ LET s == CurrentHook(c).sid
           sess == Entered(sessions[s], HookException(c))
       IN /\ sessions[s].pc \in {"idle", "done"}
          /\ IF sess.call = "none"
             THEN Exited(c, s, HookExit(sess, "none"))
             ELSE /\ sessions' = [sessions EXCEPT ![s] =
                        [sess EXCEPT !.pc = "awaiting",
                            !.thread = AwaitRunsOn(0),
                            !.observed = c,
                            !.commits = IF sess.call = "commit" THEN @ + 1 ELSE @,
                            !.rollbacks = IF sess.call = "rollback" THEN @ + 1 ELSE @]]
                  /\ UNCHANGED <<scopes, comp>>
    /\ UNCHANGED <<config, compScope, resources, commit_executor,
                   queue, busy, disposals>>

\* The awaited call returns (ok) or raises; the finally awaits close().
AsyncFinish(c, ok) ==
    /\ Running(c, "session")
    /\ LET s == CurrentHook(c).sid
           sess == CallEffect(sessions[s], sessions[s].call, ok)
       IN /\ sessions[s].pc = "awaiting"
          /\ Exited(c, s, HookExit(sess, sess.callExc))
    /\ UNCHANGED <<config, compScope, resources, commit_executor,
                   queue, busy, disposals>>

----------------------------------------------------------------------------

Next ==
    \/ \E p \in 0..MaxScopes : OpenScope(p)
    \/ \E c \in Scopes, e \in {"none", "error", "cancelled"} : EndScope(c, e)
    \/ \E c \in Scopes, cb \in {"none", "returns", "raises"} : Start(c, cb)
    \/ \E c \in Scopes : RunDispose(c)
    \/ \E c \in Scopes : RunShutdown(c)
    \/ \E c \in Scopes : CreateSession(c)
    \/ \E s \in Sessions : Execute(s)
    \/ \E s \in Sessions : ConsumerRollback(s)
    \/ \E c \in Scopes : TeardownSessionSync(c)
    \/ \E w \in 1..MaxWorkers : WorkerStart(w)
    \/ \E w \in 1..MaxWorkers, ok \in BOOLEAN : WorkerFinish(w, ok)
    \/ \E c \in Scopes : SyncResume(c)
    \/ \E c \in Scopes : TeardownSessionAsync(c)
    \/ \E c \in Scopes, ok \in BOOLEAN : AsyncFinish(c, ok)

Spec == Init /\ [][Next]_vars

----------------------------------------------------------------------------
(* The component in service.  It has been started in the application's     *)
(* root context, which stays open; that context is scope 0 here, and the   *)
(* scopes of the model are opened beneath it, one per request or task.     *)

\* The state after start() has returned in the root context.
InitPool ==
    /\ rev \in {"v4", "v5"}
    /\ bind \in {"Engine", "Connection", "AsyncEngine", "AsyncConnection"}
    /\ workers = MaxWorkers
    /\ comp = "started"
    /\ compScope = 0
    /\ resources = Published(rev, IsAsyncEngine(bind))
    /\ commit_executor =
          IF rev = "v5" \/ ~IsAsyncEngine(bind) THEN "running" ELSE "unset"
    /\ queue = <<>>
    /\ busy = [w \in 1..MaxWorkers |-> 0]
    /\ disposals = 0
    /\ scopes = [c \in Scopes |-> NewScope]
    /\ sessions = [s \in Sessions |-> NewSession]
    /\ ctor = Constructed(rev, bind)
    /\ startup = NewStartup
    /\ foreign = {}
    /\ db = NewDb

\* async with Context(): a scope is opened under the root context.
OpenRequestScope ==
    /\ compScope = 0
    /\ comp = "started"
    /\ \E c \in Scopes : scopes[c].state = "unopened"
    /\ scopes' = [scopes EXCEPT ![NextScope] =
                    [NewScope EXCEPT !.state = "open", !.parent = 0]]
    /\ UNCHANGED <<config, comp, compScope, resources, commit_executor,
                   queue, busy, disposals, sessions>>

\* Under load: a synchronous bind, and request scopes side by side, so
\* that several teardown hooks are in flight at once.
InitLoad == InitPool /\ ~IsAsyncEngine(bind)

NextLoad ==
    \/ OpenRequestScope
    \/ \E c \in Scopes, e \in {"none", "error"} : EndScope(c, e)
    \/ \E c \in Scopes : CreateSession(c)
    \/ \E s \in Sessions : Execute(s)
    \/ \E s \in Sessions : ConsumerRollback(s)
    \/ \E c \in Scopes : TeardownSessionSync(c)
    \/ \E w \in 1..MaxWorkers : WorkerStart(w)
    \/ \E w \in 1..MaxWorkers, ok \in BOOLEAN : WorkerFinish(w, ok)
    \/ \E c \in Scopes : SyncResume(c)

SpecLoad == InitLoad /\ [][NextLoad]_vars

\* The scheduling the finalization relies on: the event loop runs a hook
\* that is ready to start or to resume, an idle worker thread takes a queued
\* work item, and a call that a worker executes returns or raises.
FairTeardown ==
    /\ WF_vars(\E c \in Scopes : TeardownSessionSync(c))
    /\ WF_vars(\E w \in 1..MaxWorkers : WorkerStart(w))
    /\ WF_vars(\E w \in 1..MaxWorkers, ok \in BOOLEAN : WorkerFinish(w, ok))
    /\ WF_vars(\E c \in Scopes : SyncResume(c))

\* Request scopes in the middle of their work: every scope is open under the
\* root context, and every session has been created for one of them (the
\* sessions are dealt out to the scopes in turn), with or without a
\* transaction.
SessionOwner(s) == ((s - 1) % MaxScopes) + 1

OwnedHooks(c) ==
    [i \in 1..Cardinality({s \in Sessions : SessionOwner(s) = c}) |->
        SessionHook(c + (i - 1) * MaxScopes)]

InUse(s, b, c, tx) ==
    [NewSession EXCEPT !.state = "live", !.owner = SessionOwner(s),
        !.bind = SessionBind(c), !.expire_on_commit = c.expire_on_commit,
        !.inTx = tx, !.dirty = tx, !.conn = IF tx THEN Checkout(b) ELSE 0]

InitDrain ==
    /\ rev \in {"v4", "v5"}
    /\ bind \in {"Engine", "Connection"}
    /\ workers = MaxWorkers
    /\ comp = "started"
    /\ compScope = 0
    /\ resources = Published(rev, FALSE)
    /\ commit_executor = "running"
    /\ queue = <<>>
    /\ busy = [w \in 1..MaxWorkers |-> 0]
    /\ disposals = 0
    /\ scopes = [c \in Scopes |->
                   [NewScope EXCEPT !.state = "open", !.hooks = OwnedHooks(c)]]
    /\ \E tx \in [Sessions -> BOOLEAN] :
          sessions = [s \in Sessions |->
                        InUse(s, bind, Constructed(rev, bind), tx[s])]
    /\ ctor = Constructed(rev, bind)
    /\ startup = NewStartup
    /\ foreign = {}
    /\ db = NewDb

NextDrain ==
    \/ \E c \in Scopes, e \in {"none", "error"} : EndScope(c, e)
    \/ \E c \in Scopes : TeardownSessionSync(c)
    \/ \E w \in 1..MaxWorkers : WorkerStart(w)
    \/ \E w \in 1..MaxWorkers, ok \in BOOLEAN : WorkerFinish(w, ok)
    \/ \E c \in Scopes : SyncResume(c)

SpecDrain == InitDrain /\ [][NextDrain]_vars /\ FairTeardown

\* One request after another: a scope is opened once the one before it has
\* been torn down; consumers execute through their sessions and close them
\* themselves in any order.
OpenRequestAlone ==
    /\ \A c \in Scopes : scopes[c].state \in {"unopened", "closed"}
    /\ OpenRequestScope

NextReuse ==
    \/ OpenRequestAlone
    \/ \E c \in Scopes, e \in {"none", "error", "cancelled"} : EndScope(c, e)
    \/ \E c \in Scopes : CreateSession(c)
    \/ \E s \in Sessions : Execute(s)
    \/ \E s \in Sessions : ConsumerRollback(s)
    \/ \E s \in Sessions : ConsumerClose(s)
    \/ \E c \in Scopes : TeardownSessionSync(c)
    \/ \E w \in 1..MaxWorkers : WorkerStart(w)
    \/ \E w \in 1..MaxWorkers, ok \in BOOLEAN : WorkerFinish(w, ok)
    \/ \E c \in Scopes : SyncResume(c)
    \/ \E c \in Scopes : TeardownSessionAsync(c)
    \/ \E c \in Scopes, ok \in BOOLEAN : AsyncFinish(c, ok)

SpecReuse == InitPool /\ [][NextReuse]_vars

----------------------------------------------------------------------------
(* Cancellation of the task that tears a scope down, while the hook of a   *)
(* synchronous session awaits its dispatched call.                         *)

\* Whether a cancellation reaches the hook at its await.  While the call
\* waits for a worker it does in both revisions, and the call is never
\* made.  While the call runs on the worker thread: the future that
\* run_in_executor returns (v4) is cancelled and the await raises
\* CancelledError at once, the thread going on with the call;
\* to_thread.run_sync (v5) is called without abandon_on_cancel and holds the
\* cancellation back until the thread is done.
Cancellable(r, pc) == pc = "queued" \/ (pc = "running" /\ r = "v4")

Without(q, s) == SelectSeq(q, LAMBDA x : x # s)

\* The task is cancelled at the hook's await: CancelledError is raised
\* there, and the hook's finally closes the session on the loop thread.
CancelAwait(c) ==
    /\ Running(c, "session")
    /\ LET s == CurrentHook(c).sid
       IN /\ sessions[s].pc \in {"queued", "running"}
          /\ Cancellable(rev, sessions[s].pc)
          /\ queue' = Without(queue, s)
          /\ Exited(c, s, HookExit(sessions[s], "CancelledError"))
    /\ UNCHANGED <<config, compScope, resources, commit_executor,
                   busy, disposals>>

NextCancel ==
    \/ OpenRequestScope
    \/ \E c \in Scopes, e \in {"none", "error", "cancelled"} : EndScope(c, e)
    \/ \E c \in Scopes : CreateSession(c)
    \/ \E s \in Sessions : Execute(s)
    \/ \E c \in Scopes : TeardownSessionSync(c)
    \/ \E w \in 1..MaxWorkers : WorkerStart(w)
    \/ \E w \in 1..MaxWorkers, ok \in BOOLEAN : WorkerFinish(w, ok)
    \/ \E c \in Scopes : SyncResume(c)
    \/ \E c \in Scopes : CancelAwait(c)

SpecCancel == InitLoad /\ [][NextCancel]_vars

----------------------------------------------------------------------------
(* Construction and start() step by step: the ready callback, then the     *)
(* registrations one after another, in a scope that may already hold       *)
(* resources of other components under the same name.                      *)

\* The resource type the engine is registered under.
EngineType(b) == IF IsAsyncEngine(b) THEN "AsyncEngine" ELSE "Engine"

\* The objects involved, by identity: "bind" is self._bind / self._async_bind,
\* and self.engine is that same object unless the bind is a connection, whose
\* engine is another object.
BindObject(b) == "bind"

EngineObject(b) ==
    IF b \in {"Connection", "AsyncConnection"} THEN "bind.engine" ELSE "bind"

\* The arguments start() passes to the ready callback.
ReadyArgs(b) == <<BindObject(b), "_sessionmaker">>

\* The object a lookup of resource type t returns once start() registered it.
ResourceObject(b, t) ==
    IF t \in {"Engine", "AsyncEngine"} THEN EngineObject(b)
    ELSE IF t = "sessionmaker" THEN "_sessionmaker"
    ELSE IF t = "async_sessionmaker" THEN "_async_sessionmaker"
    ELSE IF t = "Session" THEN "create_session"
    ELSE "create_async_session"

StartSteps_PublishFirst(r, async) ==
    IF async
    THEN IF r = "v4"
         THEN <<"AsyncEngine", "async_sessionmaker", "AsyncSession", "ready">>
         ELSE <<"AsyncEngine", "sessionmaker", "async_sessionmaker",
                "AsyncSession", "ready">>
    ELSE IF r = "v4"
         THEN <<"executor", "Engine", "sessionmaker", "Session", "ready">>
         ELSE <<"Engine", "sessionmaker", "Session", "ready">>

\* The statements of start() in program order: the ready callback, the
\* creation of the commit executor (v4, synchronous), and one add_resource /
\* add_resource_factory call per resource type.
StartSteps(r, async) ==
    IF async
    THEN IF r = "v4"
         THEN <<"ready", "AsyncEngine", "async_sessionmaker", "AsyncSession">>
         ELSE <<"ready", "AsyncEngine", "sessionmaker", "async_sessionmaker",
                "AsyncSession">>
    ELSE IF r = "v4"
         THEN <<"ready", "executor", "Engine", "sessionmaker", "Session">>
         ELSE <<"ready", "Engine", "sessionmaker", "Session">>

RegisteredAs_Default(t, name) == <<t, "default">>

\* ctx.add_resource(obj, self.resource_name): the resource is known in the
\* scope by its type and the component's resource name.
RegisteredAs(t, name) == <<t, name>>

\* What the ready callback does when called: nothing is configured, it
\* returns, it raises, or it returns an awaitable that completes or raises.
Callbacks == {"none", "returns", "raises", "awaitable_returns", "awaitable_raises"}

\* The frame of a start() call in scope c: its progress, and the resources,
\* teardown callbacks and executor as the call has them so far.
Frame(c, cb) ==
    [pc |-> "running", scope |-> c, pos |-> 1, cb |-> cb, calls |-> 0,
     args |-> <<>>, completed |-> FALSE, exc |-> "none", registered |-> {},
     res |-> resources, hooks |-> scopes[c].hooks,
     executor |-> commit_executor]

Resumed(c) ==
    [pc |-> "running", scope |-> c, pos |-> startup.pos, cb |-> startup.cb,
     calls |-> startup.calls, args |-> startup.args,
     completed |-> startup.completed, exc |-> "none",
     registered |-> startup.registered,
     res |-> resources, hooks |-> scopes[c].hooks,
     executor |-> commit_executor]

Raise(fr, e) == [fr EXCEPT !.pc = "failed", !.exc = e]

\* start() runs from statement fr.pos until it suspends at the await of the
\* callback's awaitable, raises, or reaches its end (the yield of v4, where
\* the rest of the generator becomes a teardown callback of the scope).
\* resumed: the awaitable it was suspended on has just completed.
RECURSIVE RunStart(_, _)
RunStart(fr, resumed) ==
    LET steps == StartSteps(rev, IsAsyncEngine(bind))
        step == steps[fr.pos]
        next == [fr EXCEPT !.pos = fr.pos + 1]
        called == [fr EXCEPT !.calls = fr.calls + 1, !.args = ReadyArgs(bind)]
    IN IF fr.pos > Len(steps)
       THEN [fr EXCEPT !.pc = "done",
                       !.hooks = IF rev = "v4" THEN Append(fr.hooks, DisposeHook)
                                 ELSE fr.hooks]
       ELSE IF step = "ready"
       THEN IF fr.cb = "none" THEN RunStart(next, FALSE)
            ELSE IF resumed
            THEN IF fr.cb = "awaitable_raises" THEN Raise(fr, "CallbackError")
                 ELSE RunStart([next EXCEPT !.completed = TRUE], FALSE)
            ELSE IF "_sessionmaker" \notin ctor.factories
            THEN Raise(fr, "AttributeError")
            ELSE IF fr.cb = "raises" THEN Raise(called, "CallbackError")
            ELSE IF fr.cb = "returns"
            THEN RunStart([called EXCEPT !.pos = fr.pos + 1,
                                         !.completed = TRUE], FALSE)
            ELSE [called EXCEPT !.pc = "awaiting"]
       ELSE IF step = "executor"
       THEN RunStart([next EXCEPT !.executor = "running",
                                  !.hooks = Append(fr.hooks, ShutdownHook)],
                     FALSE)
       ELSE IF RegisteredAs(step, ctor.resource_name) \in foreign \cup fr.registered
       THEN Raise(fr, "ResourceConflict")
       ELSE RunStart([next EXCEPT
                !.res = fr.res \cup {step},
                !.registered = fr.registered
                                  \cup {RegisteredAs(step, ctor.resource_name)},
                !.hooks = IF rev = "v5" /\ step = EngineType(bind)
                             /\ bind = "AsyncEngine"
                          THEN Append(fr.hooks, DisposeHook)
                          ELSE fr.hooks],
              FALSE)

\* The state after start() has run to frame fr in scope c.
StartEffect(c, fr) ==
    /\ startup' = [pc |-> fr.pc, scope |-> c, pos |-> fr.pos, cb |-> fr.cb,
                   calls |-> fr.calls, args |-> fr.args,
                   completed |-> fr.completed, exc |-> fr.exc,
                   registered |-> fr.registered]
    /\ resources' = fr.res
    /\ commit_executor' = fr.executor
    /\ scopes' = [scopes EXCEPT ![c].hooks = fr.hooks]
    /\ comp' = IF fr.pc = "done" THEN "started"
               ELSE IF fr.pc = "awaiting" THEN "starting" ELSE "failed"
    /\ compScope' = IF fr.pc = "done" THEN c ELSE compScope
    /\ UNCHANGED <<rev, bind, workers, ctor, foreign, queue, busy,
                   disposals, sessions, db>>

\* SQLAlchemyComponent(url=..., bind=..., prefer_async=...)
Construct(url, b, prefer_async, o) ==
    /\ ctor.state = "new"
    /\ LET c == ComponentInit(rev, url, b, prefer_async)
       IN ctor' = c @@ InitRest(rev, c, o) @@ Given(url, b, prefer_async, o)
    /\ bind' = ctor'.bind
    /\ workers' = CommitWorkers(rev, o.commit_executor_workers)
    /\ commit_executor' = IF rev = "v5" THEN "running" ELSE commit_executor
    /\ UNCHANGED <<rev, comp, compScope, resources, queue, busy,
                   disposals, scopes, sessions, startup, foreign, db>>

\* await component.start(ctx) in the root scope, up to its first suspension.
StartCall(c, cb) ==
    /\ ctor.state = "ok"
    /\ comp = "unstarted"
    /\ startup.pc = "idle"
    /\ scopes[c].state = "open"
    /\ scopes[c].parent = 0
    /\ StartEffect(c, RunStart(Frame(c, cb), FALSE))

\* The awaitable the ready callback returned completes or raises, and
\* start() resumes.
ReadyDone(c) ==
    /\ startup.pc = "awaiting"
    /\ startup.scope = c
    /\ StartEffect(c, RunStart(Resumed(c), TRUE))

\* The block of the scope ends; it cannot while start() is suspended in it,
\* and it ends with the exception of a start() that raised.
EndStartScope(c, e) ==
    /\ startup.pc # "awaiting"
    /\ (comp = "failed" /\ scopes[c].parent = 0) => e = "error"
    /\ EndScope(c, e)

\* The resources (type, name) other components may have registered in the
\* scope before start() runs.
ForeignSets ==
    {{}, {<<"Engine", "default">>}, {<<"sessionmaker", "default">>},
     {<<"AsyncSession", "default">>}, {<<"Engine", "alternate">>}}

\* The constructor options the start-up is explored with.
StartOptions ==
    {DefaultOptions, [DefaultOptions EXCEPT !.resource_name = "alternate"]}

InitStart ==
    /\ rev \in {"v4", "v5"}
    /\ bind = "unset"
    /\ workers = MaxWorkers
    /\ comp = "unstarted"
    /\ compScope = 0
    /\ resources = {}
    /\ commit_executor = "unset"
    /\ queue = <<>>
    /\ busy = [w \in 1..MaxWorkers |-> 0]
    /\ disposals = 0
    /\ scopes = [c \in Scopes |-> NewScope]
    /\ sessions = [s \in Sessions |-> NewSession]
    /\ ctor = NotConstructed
    /\ startup = NewStartup
    /\ foreign \in ForeignSets
    /\ db = NewDb

NextStart ==
    \/ \E url \in Urls, b \in BindArgs, p \in BOOLEAN, o \in StartOptions :
          Construct(url, b, p, o)
    \/ \E p \in {0} \cup Scopes : OpenScope(p)
    \/ \E c \in Scopes, cb \in Callbacks : StartCall(c, cb)
    \/ \E c \in Scopes : ReadyDone(c)
    \/ \E c \in Scopes, e \in {"none", "error"} : EndStartScope(c, e)
    \/ \E c \in Scopes : RunDispose(c)
    \/ \E c \in Scopes : RunShutdown(c)

SpecStart == InitStart /\ [][NextStart]_vars

----------------------------------------------------------------------------
(* The constructor over all its arguments, the legacy component            *)
(* (src/asphalt/sqlalchemy/component.py, revision "legacy") included.      *)

\* The legacy __init__ with one engine: configure_engine(url, ...) creates a
\* synchronous engine, then a sessionmaker bound to nothing.
LegacyInit(url) ==
    IF url = "none" THEN CtorError("AttributeError", <<>>)
    ELSE IF CreateEngine(url, FALSE) = "ok"
    THEN CtorOk("legacy", "Engine", <<FALSE>>)
    ELSE CtorError(CreateEngine(url, FALSE), <<FALSE>>)

\* SQLAlchemyComponent(url=..., session=...) of the legacy component.
ConstructLegacy(url, o) ==
    /\ rev = "legacy"
    /\ ctor.state = "new"
    /\ LET c == LegacyInit(url)
       IN ctor' = c @@ InitRest(rev, c, o) @@ Given(url, "none", FALSE, o)
    /\ bind' = ctor'.bind
    /\ workers' = CommitWorkers(rev, o.commit_executor_workers)
    /\ UNCHANGED <<rev, comp, compScope, resources, commit_executor,
                   queue, busy, disposals, scopes, sessions, startup, foreign,
                   db>>

ConstructAny(url, b, prefer_async, o) ==
    /\ rev # "legacy"
    /\ Construct(url, b, prefer_async, o)

InitCtor ==
    /\ rev \in {"v4", "v5", "legacy"}
    /\ bind = "unset"
    /\ workers = MaxWorkers
    /\ comp = "unstarted"
    /\ compScope = 0
    /\ resources = {}
    /\ commit_executor = "unset"
    /\ queue = <<>>
    /\ busy = [w \in 1..MaxWorkers |-> 0]
    /\ disposals = 0
    /\ scopes = [c \in Scopes |-> NewScope]
    /\ sessions = [s \in Sessions |-> NewSession]
    /\ ctor = NotConstructed
    /\ startup = NewStartup
    /\ foreign = {}
    /\ db = NewDb

NextCtor ==
    \/ \E url \in Urls, b \in BindArgs, p \in BOOLEAN, o \in Options :
          ConstructAny(url, b, p, o)
    \/ \E url \in Urls, o \in Options : ConstructLegacy(url, o)

SpecCtor == InitCtor /\ [][NextCtor]_vars

----------------------------------------------------------------------------
(* A sqlite engine built from a url: the listeners apply_sqlite_hacks      *)
(* installs, and a session working on a connection of that engine with a   *)
(* nested transaction (SAVEPOINT).                                         *)

\* do_connect: dbapi_connection.isolation_level = None, the driver no longer
\* frames transactions by itself.
do_connect(d) == [d EXCEPT !.framing = FALSE]

\* do_begin: conn.exec_driver_sql("BEGIN"), the database has an explicit
\* transaction.
do_begin(d) == [d EXCEPT !.dbTx = "explicit"]

\* The engine fires event "connect" / "begin": the listener installed for
\* it, if any, runs.
OnConnect(d) == IF "connect" \in ctor.listeners THEN do_connect(d) ELSE d
OnBegin(d) == IF "begin" \in ctor.listeners THEN do_begin(d) ELSE d

SqliteOptions == [DefaultOptions EXCEPT !.dialect = "sqlite"]

notDb == <<rev, bind, workers, ctor, startup, foreign, comp, compScope,
           resources, commit_executor, queue, busy, disposals, scopes,
           sessions>>

\* SQLAlchemyComponent(url="sqlite...://...", prefer_async=...)
ConstructSqlite(url, prefer_async) ==
    Construct(url, "none", prefer_async, SqliteOptions)

\* await component.start(ctx) of a component whose constructor returned.
StartBuilt(c) ==
    /\ ctor.state = "ok"
    /\ Start(c, "none")

\* The session's first use: the pool opens a physical connection, the
\* engine fires "connect".
SqlConnect(s) ==
    /\ sessions[s].state = "live"
    /\ db.owner = 0
    /\ db' = OnConnect([db EXCEPT !.owner = s])
    /\ UNCHANGED notDb

\* The session begins its transaction on the connection: the engine fires
\* "begin".  Without a listener nothing is sent to the database yet.
SqlBegin(s) ==
    /\ db.owner = s
    /\ ~db.saTx
    /\ db' = OnBegin([db EXCEPT !.saTx = TRUE])
    /\ UNCHANGED notDb

\* session.flush() of an added row (INSERT).  With no transaction in the
\* database a framing driver begins one first, and a driver that does not
\* frame executes the statement in autocommit mode.
SqlWrite(s) ==
    /\ db.owner = s
    /\ db.saTx
    /\ db.writes = "none"
    /\ db' = IF db.dbTx # "none" THEN [db EXCEPT !.writes = "pending"]
             ELSE IF db.framing
             THEN [db EXCEPT !.dbTx = "explicit", !.writes = "pending"]
             ELSE [db EXCEPT !.writes = "committed"]
    /\ UNCHANGED notDb

\* begin_nested(): SAVEPOINT.  A framing driver may commit the open
\* transaction before a statement that is not DML (commits); a SAVEPOINT
\* outside a transaction opens one that the savepoint itself delimits.
SqlBeginNested(s, commits) ==
    /\ db.owner = s
    /\ db.saTx
    /\ ~db.saNested
    /\ commits => db.framing
    /\ LET d == IF commits /\ db.dbTx # "none"
                THEN [db EXCEPT !.dbTx = "none",
                        !.writes = IF db.writes = "pending" THEN "committed"
                                   ELSE db.writes]
                ELSE db
       IN db' = [d EXCEPT !.saNested = TRUE,
                          !.dbTx = IF d.dbTx = "none" THEN "savepoint" ELSE d.dbTx]
    /\ UNCHANGED notDb

\* The nested transaction is rolled back: ROLLBACK TO SAVEPOINT, which
\* leaves the transaction of the database open.
SqlRollbackNested(s) ==
    /\ db.owner = s
    /\ db.saNested
    /\ db.nestedRollbacks < 1
    /\ db' = [db EXCEPT !.saNested = FALSE, !.nestedRollbacks = db.nestedRollbacks + 1]
    /\ UNCHANGED notDb

\* session.rollback(): ROLLBACK, undoing what the database's transaction
\* holds; rows committed before stay.
SqlRollback(s) ==
    /\ db.owner = s
    /\ db.saTx
    /\ db' = [db EXCEPT !.saTx = FALSE, !.saNested = FALSE, !.dbTx = "none",
                        !.writes = IF db.writes = "pending" THEN "none"
                                   ELSE db.writes]
    /\ UNCHANGED notDb

NextSqlite ==
    \/ \E url \in Urls, p \in BOOLEAN : ConstructSqlite(url, p)
    \/ \E p \in {0} \cup Scopes : OpenScope(p)
    \/ \E c \in Scopes : StartBuilt(c)
    \/ \E c \in Scopes : CreateSession(c)
    \/ \E s \in Sessions : SqlConnect(s)
    \/ \E s \in Sessions : SqlBegin(s)
    \/ \E s \in Sessions : SqlWrite(s)
    \/ \E s \in Sessions, commits \in BOOLEAN : SqlBeginNested(s, commits)
    \/ \E s \in Sessions : SqlRollbackNested(s)
    \/ \E s \in Sessions : SqlRollback(s)

InitSqlite == InitCtor /\ rev # "legacy"

SpecSqlite == InitSqlite /\ [][NextSqlite]_vars

----------------------------------------------------------------------------
(* The legacy AsyncSession (src/asphalt/sqlalchemy/async.py) as a regular   *)
(* ("with") or asynchronous ("async with") context manager.  Thread 0 is   *)
(* the event-loop thread.                                                  *)

\* An AsyncSession nobody has entered: how it is entered, whether
\* session.is_active holds, what the block and __enter__ raised, and
\* is_active as __exit__ / __aexit__ found it.
NewManaged ==
    NewSession @@ [mode |-> "none", active |-> TRUE, blockExc |-> "none",
                   enterExc |-> "none", exitActive |-> TRUE]

\* __enter__: refused in the event-loop thread; __aenter__ returns self.
EnterRaises(mode, thread) == mode = "with" /\ thread = 0

ManagerCall_ExceptionOnly(exc_type, is_active) ==
    IF exc_type = "none" THEN "commit" ELSE "none"

\* "if exc_type is None and self.is_active: self.commit()"
ManagerCall(exc_type, is_active) ==
    IF exc_type = "none" /\ is_active THEN "commit" ELSE "none"

\* __exit__ / __aexit__: "with closing(self):" around the conditional
\* commit, which returns (ok) or raises; the session is closed on the way
\* out, and the exception of the commit, or else that of the block,
\* propagates (the method returns None).
ManagerExit(sess, exc_type, ok) ==
    LET call == ManagerCall(exc_type, sess.active)
        made == IF call = "commit"
                THEN [CallEffect(sess, call, ok) EXCEPT !.commits = @ + 1]
                ELSE sess
    IN [SessionClose(made) EXCEPT !.pc = "done", !.call = call,
                   !.txAtEnd = sess.inTx,
                   !.blockExc = exc_type, !.exitActive = sess.active,
                   !.hookExc = IF made.callExc # "none" THEN made.callExc
                               ELSE exc_type]

notSessions == <<rev, bind, workers, comp, compScope, resources,
                 commit_executor, queue, busy, disposals, scopes, ctor,
                 startup, foreign, db>>

\* "with session:" / "async with session:" in thread t.
Enter(s, mode, t) ==
    /\ sessions[s].pc = "idle"
    /\ sessions[s].state = "absent"
    /\ sessions' = [sessions EXCEPT ![s] =
          IF EnterRaises(mode, t)
          THEN [@ EXCEPT !.state = "live", !.mode = mode, !.thread = t,
                         !.pc = "refused", !.enterExc = "RuntimeError"]
          ELSE [@ EXCEPT !.state = "live", !.mode = mode, !.thread = t,
                         !.pc = "block"]]
    /\ UNCHANGED notSessions

\* The block works through the session: session.execute('INSERT ...').
BlockExecute(s) ==
    /\ sessions[s].pc = "block"
    /\ sessions[s].active
    /\ ~sessions[s].inTx
    /\ sessions' = [sessions EXCEPT ![s].inTx = TRUE, ![s].dirty = TRUE]
    /\ UNCHANGED notSessions

\* A flush fails inside the block: the session's transaction is inactive
\* until it is rolled back.
BlockFlushFails(s) ==
    /\ sessions[s].pc = "block"
    /\ sessions[s].inTx
    /\ sessions[s].active
    /\ sessions' = [sessions EXCEPT ![s].active = FALSE]
    /\ UNCHANGED notSessions

\* The block is left, normally or by an exception.
ExitBlock(s, exc_type, ok) ==
    /\ sessions[s].pc = "block"
    /\ sessions' = [sessions EXCEPT ![s] = ManagerExit(@, exc_type, ok)]
    /\ UNCHANGED notSessions

InitManager ==
    /\ rev = "legacy"
    /\ bind = "Connection"
    /\ workers = DefaultWorkersLegacy
    /\ comp = "unstarted"
    /\ compScope = 0
    /\ resources = {}
    /\ commit_executor = "unset"
    /\ queue = <<>>
    /\ busy = [w \in 1..MaxWorkers |-> 0]
    /\ disposals = 0
    /\ scopes = [c \in Scopes |-> NewScope]
    /\ sessions = [s \in Sessions |-> NewManaged]
    /\ ctor = NotConstructed
    /\ startup = NewStartup
    /\ foreign = {}
    /\ db = NewDb

NextManager ==
    \/ \E s \in Sessions, mode \in {"with", "async with"}, t \in {0, 1} :
          Enter(s, mode, t)
    \/ \E s \in Sessions : BlockExecute(s)
    \/ \E s \in Sessions : BlockFlushFails(s)
    \/ \E s \in Sessions, e \in {"none", "error"}, ok \in BOOLEAN :
          ExitBlock(s, e, ok)

SpecManager == InitManager /\ [][NextManager]_vars

----------------------------------------------------------------------------
(* The connection resource of the legacy component                         *)
(* (src/asphalt/sqlalchemy/component.py, create_connection): one per       *)
(* scope, kept in db as a function of the scope.                           *)

\* No connection resource: ctx is connection.info['ctx'] (0: no entry), tx
\* the transaction connection.begin() returned.
NewConnection ==
    [state |-> "absent", ctx |-> 0, tx |-> "none", dirty |-> FALSE,
     persisted |-> FALSE, pc |-> "idle", exception |-> "none",
     commits |-> 0, closes |-> 0, thread |-> -1, callExc |-> "none",
     hookExc |-> "none"]

ConnectionHook(c) == [kind |-> "connection", sid |-> c]

\* connection = engine.connect(); connection.info['ctx'] = ctx;
\* transaction = connection.begin()
Connect(c) ==
    [NewConnection EXCEPT !.state = "open", !.ctx = c, !.tx = "begun"]

\* "if exception is None:" of teardown_connection.
ConnectionCommits(exception) == exception = "none"

\* transaction.commit() returning (ok) or raising.
CommitEffect(conn, ok) ==
    IF ok THEN [conn EXCEPT !.tx = "committed",
                            !.persisted = conn.dirty, !.dirty = FALSE]
    ELSE [conn EXCEPT !.callExc = "dberror"]

ConnectionExit_NoFinally(conn, exc) ==
    IF exc # "none" THEN [conn EXCEPT !.pc = "done", !.hookExc = exc]
    ELSE [conn EXCEPT !.pc = "done", !.hookExc = exc, !.ctx = 0,
             !.state = "closed", !.closes = conn.closes + 1,
             !.tx = IF conn.tx = "begun" THEN "discarded" ELSE conn.tx,
             !.dirty = FALSE]

\* "finally: del connection.info['ctx']; connection.close()": closing the
\* connection discards a transaction that was not committed; then the
\* pending exception (if any) propagates.
ConnectionExit(conn, exc) ==
    [conn EXCEPT !.pc = "done", !.hookExc = exc, !.ctx = 0,
         !.state = "closed", !.closes = conn.closes + 1,
         !.tx = IF conn.tx = "begun" THEN "discarded" ELSE conn.tx,
         !.dirty = FALSE]

notScopesDb == <<rev, bind, workers, comp, compScope, resources,
                 commit_executor, queue, busy, disposals, sessions, ctor,
                 startup, foreign>>

\* The resource factory runs for scope c.
CreateConnection(c) ==
    /\ scopes[c].state = "open"
    /\ db[c].state = "absent"
    /\ db' = [db EXCEPT ![c] = Connect(c)]
    /\ scopes' = [scopes EXCEPT ![c].hooks =
                      add_teardown_callback(@, ConnectionHook(c))]
    /\ UNCHANGED notScopesDb

\* Consumer code executes a statement that writes, in the transaction.
ConnectionExecute(c) ==
    /\ scopes[c].state = "open"
    /\ db[c].state = "open"
    /\ db[c].tx = "begun"
    /\ ~db[c].dirty
    /\ db' = [db EXCEPT ![c].dirty = TRUE]
    /\ UNCHANGED <<notScopesDb, scopes>>

\* The scope record and the component once the connection's hook has exited.
ConnectionExited(c, conn) ==
    /\ db' = [db EXCEPT ![c] = conn]
    /\ scopes' = [scopes EXCEPT ![c] = Advance(@, conn.hookExc # "none")]

\* teardown_connection up to its await: with an exception it goes straight
\* to its finally; without one, transaction.commit is handed to the commit
\* executor, where worker thread w runs it.
TeardownConnection(c, w) ==
    /\ Running(c, "connection")
    /\ db[c].pc = "idle"
    /\ w \in 1..MaxWorkers
    /\ LET conn == [db[c] EXCEPT !.exception = HookException(c)]
       IN IF ConnectionCommits(conn.exception)
          THEN /\ db' = [db EXCEPT ![c] =
                         [conn EXCEPT !.pc = "committing",
                                      !.commits = conn.commits + 1,
                                      !.thread = RunsOn(w)]]
               /\ UNCHANGED scopes
          ELSE ConnectionExited(c, ConnectionExit(conn, "none"))
    /\ UNCHANGED notScopesDb

\* The commit returns (ok) or raises; the hook resumes and runs its finally.
ConnectionResume(c, ok) ==
    /\ Running(c, "connection")
    /\ db[c].pc = "committing"
    /\ LET conn == CommitEffect(db[c], ok)
       IN ConnectionExited(c, ConnectionExit(conn, conn.callExc))
    /\ UNCHANGED notScopesDb

InitConnection ==
    /\ rev = "legacy"
    /\ bind = "Engine"
    /\ workers = DefaultWorkersLegacy
    /\ comp = "started"
    /\ compScope = 0
    /\ resources = {"Engine", "Connection", "sessionmaker", "Session"}
    /\ commit_executor = "running"
    /\ queue = <<>>
    /\ busy = [w \in 1..MaxWorkers |-> 0]
    /\ disposals = 0
    /\ scopes = [c \in Scopes |-> NewScope]
    /\ sessions = [s \in Sessions |-> NewSession]
    /\ ctor = NotConstructed
    /\ startup = NewStartup
    /\ foreign = {}
    /\ db = [c \in Scopes |-> NewConnection]

NextConnection ==
    \/ OpenRequestScope
    \/ \E c \in Scopes, e \in {"none", "error", "cancelled"} : EndScope(c, e)
    \/ \E c \in Scopes : CreateConnection(c)
    \/ \E c \in Scopes : ConnectionExecute(c)
    \/ \E c \in Scopes, w \in 1..MaxWorkers : TeardownConnection(c, w)
    \/ \E c \in Scopes, ok \in BOOLEAN : ConnectionResume(c, ok)

SpecConnection == InitConnection /\ [][NextConnection]_vars

----------------------------------------------------------------------------
(* Properties of the teardown protocol.                                    *)

\* The hook of session s is registered at index i of scope c.
HookAt(s, c, i) ==
    /\ i \in 1..Len(scopes[c].hooks)
    /\ scopes[c].hooks[i] = SessionHook(s)

Ended(c) == scopes[c].state \in {"closing", "closed"}

\* The hook of session s was run by scope c and has exited.
ExitedIn(s, c) ==
    /\ Ended(c)
    /\ \E i \in (scopes[c].pos + 1)..Len(scopes[c].hooks) :
          scopes[c].hooks[i] = SessionHook(s)

\* C1: a session whose scope ended without an exception is never rolled
\* back by its hook; if it had an active transaction the hook called commit
\* exactly once, and when that commit returned the session's changes are
\* persisted (visible through another connection).
C1_CommitOnSuccess ==
    \A s \in Sessions :
        LET sess == sessions[s] IN
        (sess.state = "live" /\ Ended(sess.owner) /\ scopes[sess.owner].exc = "none")
        => /\ sess.rollbacks = 0
           /\ sess.commits <= 1
           /\ (sess.pc = "done" /\ sess.txAtEnd)
                => /\ sess.commits = 1
                   /\ (sess.callExc = "none" => sess.persisted)

C1_Witness ==
    \E s \in Sessions :
        /\ sessions[s].pc = "done"
        /\ sessions[s].txAtEnd
        /\ scopes[sessions[s].owner].state = "closed"
        /\ scopes[sessions[s].owner].exc = "none"
        /\ sessions[s].commits = 1
        /\ sessions[s].persisted

\* C2: a session whose scope ended with an exception (an error or a
\* cancellation) is never committed by its hook and nothing it changed is
\* persisted; if it had an active transaction the hook called rollback.
C2_RollbackOnException ==
    \A s \in Sessions :
        LET sess == sessions[s] IN
        (sess.state = "live" /\ Ended(sess.owner) /\ scopes[sess.owner].exc # "none")
        => /\ sess.commits = 0
           /\ sess.rollbacks <= 1
           /\ ~sess.persisted
           /\ (sess.pc = "done" /\ sess.txAtEnd) => sess.rollbacks = 1

C2_Witness ==
    \E s \in Sessions :
        /\ sessions[s].pc = "done"
        /\ sessions[s].txAtEnd
        /\ scopes[sessions[s].owner].state = "closed"
        /\ scopes[sessions[s].owner].exc = "cancelled"
        /\ sessions[s].rollbacks = 1
        /\ ~sessions[s].persisted

\* C3: whenever a session's hook has exited - with or without a
\* transaction, after commit or rollback, returned or raised - the session
\* is closed; a scope never moves past a session hook whose session is open.
C3_GuaranteedClose ==
    /\ \A s \in Sessions : sessions[s].pc = "done" => sessions[s].closed
    /\ \A c \in Scopes : \A s \in Sessions :
          ExitedIn(s, c) => (sessions[s].pc = "done" /\ sessions[s].closed)

C3_Witness ==
    \E s \in Sessions :
        /\ sessions[s].pc = "done"
        /\ sessions[s].callExc # "none"
        /\ sessions[s].closed
        /\ ExitedIn(s, sessions[s].owner)

\* C4: when the hook's commit or rollback raised, the hook exits with the
\* session closed and with that same exception, which reaches the scope
\* awaiting it; the call was made once and not again.
C4_FailurePropagates ==
    \A s \in Sessions :
        LET sess == sessions[s] IN
        /\ sess.commits + sess.rollbacks <= 1
        /\ (sess.pc = "done" /\ sess.callExc # "none")
              => /\ sess.closed
                 /\ sess.hookExc = sess.callExc
                 /\ sess.commits + sess.rollbacks = 1
                 /\ \A c \in Scopes : ExitedIn(s, c) => scopes[c].failed

C4_Witness ==
    \E s \in Sessions :
        /\ sessions[s].pc = "done"
        /\ sessions[s].callExc = "dberror"
        /\ sessions[s].hookExc = "dberror"
        /\ sessions[s].closed
        /\ scopes[sessions[s].owner].failed

\* C5: every session handed out has exactly one teardown hook, on the scope
\* it was created for; the hook runs at most once and the component closes
\* the session at most once, exactly once when the hook has run.
C5_OneHookPerSession ==
    \A s \in Sessions :
        LET sess == sessions[s] IN
        /\ sess.state = "absent"
              => \A c \in Scopes : \A i \in 1..Len(scopes[c].hooks) : ~HookAt(s, c, i)
        /\ sess.state = "live"
              => /\ \E i \in 1..Len(scopes[sess.owner].hooks) :
                       /\ HookAt(s, sess.owner, i)
                       /\ \A j \in 1..Len(scopes[sess.owner].hooks) :
                             HookAt(s, sess.owner, j) => j = i
                 /\ \A c \in Scopes \ {sess.owner} :
                       \A i \in 1..Len(scopes[c].hooks) : ~HookAt(s, c, i)
                 /\ sess.runs <= 1
                 /\ sess.closes <= 1
                 /\ sess.pc = "done" => (sess.runs = 1 /\ sess.closes = 1)
                 /\ scopes[sess.owner].state = "closed" => sess.closes = 1

C5_Witness ==
    /\ \A s \in Sessions :
          /\ sessions[s].state = "live"
          /\ sessions[s].runs = 1
          /\ sessions[s].closes = 1
    /\ \A c \in Scopes : scopes[c].state \in {"unopened", "closed"}

\* C6: the hook raises nothing of its own: when its commit or rollback did
\* not raise, the hook returns normally, and a scope that ended with an
\* exception and whose session hooks all succeeded hands that same
\* exception to its caller.
C6_ErrorNotSuppressed ==
    /\ \A s \in Sessions :
          (sessions[s].pc = "done" /\ sessions[s].callExc = "none")
              => sessions[s].hookExc = "none"
    /\ \A c \in Scopes :
          (/\ scopes[c].state = "closed"
           /\ scopes[c].exc # "none"
           /\ \A s \in Sessions : ExitedIn(s, c) => sessions[s].callExc = "none")
              => scopes[c].outcome = scopes[c].exc

C6_Witness ==
    \E c \in Scopes : \E s \in Sessions :
        /\ ExitedIn(s, c)
        /\ scopes[c].state = "closed"
        /\ scopes[c].exc = "error"
        /\ sessions[s].rollbacks = 1
        /\ sessions[s].callExc = "none"
        /\ scopes[c].outcome = "error"

\* C7: a hook that found no active transaction made no commit, no rollback
\* and no dispatch to the worker pool; it closed the session and exited.
C7_NoTransactionNoCommit ==
    \A s \in Sessions :
        LET sess == sessions[s] IN
        (sess.runs > 0 /\ ~sess.txAtEnd)
        => /\ sess.commits = 0
           /\ sess.rollbacks = 0
           /\ sess.dispatches = 0
           /\ sess.thread = -1
           /\ \A i \in 1..Len(queue) : queue[i] # s
           /\ \A w \in 1..MaxWorkers : busy[w] # s
           /\ sess.pc = "done"
           /\ sess.closes = 1

C7_Witness ==
    \E s, t \in Sessions :
        /\ sessions[s].runs = 1 /\ ~sessions[s].txAtEnd
        /\ sessions[s].exception = "none" /\ sessions[s].closed
        /\ sessions[t].runs = 1 /\ ~sessions[t].txAtEnd
        /\ sessions[t].exception # "none" /\ sessions[t].closed

\* C8: a session whose own scope is still open is untouched by the teardown
\* of any other scope (not committed, rolled back or closed), and a hook that
\* runs is given the exception of the session's own scope and nothing else.
C8_OwnSessionOnly ==
    \A s \in Sessions :
        LET sess == sessions[s] IN
        sess.state = "live"
        => /\ scopes[sess.owner].state = "open"
                => /\ sess.runs = 0
                   /\ sess.commits = 0
                   /\ sess.rollbacks = 0
                   /\ sess.closes = 0
                   /\ ~sess.closed
           /\ sess.runs > 0
                => /\ sess.exception = scopes[sess.owner].exc
                   /\ \A c \in Scopes : ExitedIn(s, c) => c = sess.owner

C8_Witness ==
    \E s, t \in Sessions :
        /\ sessions[s].state = "live" /\ sessions[t].state = "live"
        /\ sessions[s].owner # sessions[t].owner
        /\ scopes[sessions[s].owner].state = "closed"
        /\ sessions[s].pc = "done"
        /\ sessions[s].commits + sessions[s].rollbacks = 1
        /\ scopes[sessions[t].owner].state = "open"
        /\ sessions[t].inTx
        /\ sessions[t].runs = 0

\* C9: the commit or rollback of a synchronous session's hook runs on a
\* worker thread of the commit executor, never on the event-loop thread.
C9_ThreadOffload ==
    \A s \in Sessions :
        (~IsAsyncEngine(bind) /\ sessions[s].commits + sessions[s].rollbacks > 0)
        => /\ sessions[s].thread \in 1..workers
           /\ sessions[s].thread # 0

C9_Witness ==
    \E s \in Sessions :
        /\ ~IsAsyncEngine(bind)
        /\ sessions[s].pc = "running"
        /\ sessions[s].commits = 1
        /\ sessions[s].thread \in 1..workers

\* C10: the context a synchronous session's commit or rollback observes on
\* the worker thread is the snapshot the hook took when it dispatched the
\* call, which holds the scope the hook runs for.
C10_ContextCarried ==
    \A s \in Sessions :
        (~IsAsyncEngine(bind) /\ sessions[s].commits + sessions[s].rollbacks > 0)
        => /\ sessions[s].observed = sessions[s].snapshot
           /\ sessions[s].snapshot = sessions[s].owner
           /\ sessions[s].observed # 0

C10_Witness ==
    \E s \in Sessions :
        /\ ~IsAsyncEngine(bind)
        /\ sessions[s].pc = "running"
        /\ sessions[s].owner > 1
        /\ sessions[s].observed = sessions[s].owner

----------------------------------------------------------------------------
(* Properties of the asynchronous path and of the component's stop.        *)

\* C11: the hook of an asynchronous session dispatches nothing: the session
\* is never queued on the commit executor nor run by a worker thread, and
\* its commit or rollback runs on the event-loop thread of its scope.
C11_AsyncInPlace ==
    IsAsyncEngine(bind)
    => /\ queue = <<>>
       /\ \A w \in 1..MaxWorkers : busy[w] = 0
       /\ \A s \in Sessions :
             /\ sessions[s].dispatches = 0
             /\ sessions[s].pc \notin {"queued", "running", "returned"}
             /\ sessions[s].thread \in {-1, 0}
             /\ sessions[s].commits + sessions[s].rollbacks > 0
                   => sessions[s].thread = 0

C11_Witness ==
    \E s \in Sessions :
        /\ IsAsyncEngine(bind)
        /\ sessions[s].pc = "done"
        /\ sessions[s].commits = 1
        /\ sessions[s].closed
        /\ sessions[s].thread = 0

\* The component's own stop sequence (the part of start() after its yield)
\* has run in the scope the component was started in.
StopBegun ==
    /\ compScope # 0
    /\ Ended(compScope)
    /\ \E i \in (scopes[compScope].pos + 1)..Len(scopes[compScope].hooks) :
          scopes[compScope].hooks[i] = DisposeHook

\* C16 (as claimed): once the scope the component was started in is torn
\* down, the pool of a synchronous or asynchronous engine has been disposed
\* exactly once, and it is never disposed more than once.
C16_DisposedOnce ==
    /\ disposals <= 1
    /\ (comp = "stopped" /\ bind \in {"Engine", "AsyncEngine"}) => disposals = 1

\* C17: the commit executor is shut down only after the component's stop
\* sequence has run; by then no call is queued or executing and every
\* session's hook has finished, and no hook ever found the executor shut
\* down when it dispatched.
C17_ShutdownAfterCommits ==
    /\ \A s \in Sessions : sessions[s].hookExc # "RuntimeError"
    /\ commit_executor = "shutdown"
          => /\ StopBegun
             /\ queue = <<>>
             /\ \A w \in 1..MaxWorkers : busy[w] = 0
             /\ \A s \in Sessions :
                   sessions[s].state = "live" => sessions[s].pc = "done"

C17_Witness ==
    /\ commit_executor = "shutdown"
    /\ \E s \in Sessions :
          /\ sessions[s].owner = compScope
          /\ sessions[s].dispatches = 1
          /\ sessions[s].commits = 1
          /\ sessions[s].pc = "done"

----------------------------------------------------------------------------
(* Properties of the commit executor under load and of the pool.           *)

\* The sessions whose commit or rollback is executing on a worker thread.
RunningCalls == {s \in Sessions : sessions[s].pc = "running"}

\* C18: at every moment at most commit_executor_workers commit or rollback
\* calls of synchronous sessions are executing, each on a worker of its
\* own; a hook whose call is still queued has started no commit or rollback.
C18_BoundedConcurrency ==
    /\ Cardinality(RunningCalls) <= workers
    /\ \A s \in RunningCalls : \E w \in 1..workers : busy[w] = s
    /\ \A s \in Sessions :
          sessions[s].pc = "queued"
              => /\ \E i \in 1..Len(queue) : queue[i] = s
                 /\ sessions[s].thread = -1
                 /\ sessions[s].commits + sessions[s].rollbacks = 0

C18_Witness ==
    /\ queue # <<>>
    /\ \A w \in 1..workers : busy[w] # 0
    /\ Cardinality(RunningCalls) = workers
    /\ sessions[Head(queue)].pc = "queued"

\* C19: whatever the consumer did with a session in its scope - execute,
\* close, execute again - once the scope has been torn down the session
\* holds no connection of the pool; only sessions of scopes that are not
\* torn down yet hold one, so the pool's count returns to zero after each
\* scope and later sessions check out again.
C19_PoolReleased ==
    \A s \in Sessions :
        LET sess == sessions[s] IN
        /\ sess.conn \in {0, 1}
        /\ (sess.state = "live" /\ scopes[sess.owner].state = "closed")
              => (sess.conn = 0 /\ sess.closed)
        /\ sess.conn = 1
              => /\ sess.state = "live"
                 /\ scopes[sess.owner].state \in {"open", "closing"}
                 /\ ~sess.closed

C19_Witness ==
    \E s, t \in Sessions :
        /\ bind \in {"Engine", "AsyncEngine"}
        /\ sessions[s].userClosed
        /\ sessions[s].txAtEnd
        /\ sessions[s].pc = "done"
        /\ scopes[sessions[s].owner].state = "closed"
        /\ sessions[s].conn = 0
        /\ sessions[t].state = "live"
        /\ sessions[t].owner > sessions[s].owner
        /\ sessions[t].conn = 1

----------------------------------------------------------------------------
(* Properties of construction and of start().                              *)

MissingBoth == ctor.state # "new" /\ ctor.url = "none" /\ ctor.arg = "none"

\* C20: constructing the component with neither url nor bind fails with
\* TypeError 'both "url" and "bind" cannot be None', raised before any
\* engine is created and before any session factory exists.
C20_MissingUrlAndBind ==
    MissingBoth =>
        /\ ctor.state = "error"
        /\ ctor.error = "TypeError: both \"url\" and \"bind\" cannot be None"
        /\ ctor.attempts = 0
        /\ ctor.factories = {}
        /\ bind = "unset"

C20_Witness ==
    /\ MissingBoth
    /\ ctor.state = "error"
    /\ ctor.attempts = 0

StartReturned == startup.pc \in {"done", "failed"}

\* C12: with a ready callback configured, start() calls it exactly once and
\* awaits the awaitable it returns; no resource of the component is in the
\* scope before the callback has completed.
C12_ReadyBeforePublication ==
    startup.cb # "none" =>
        /\ StartReturned => startup.calls = 1
        /\ startup.calls <= 1
        /\ resources # {} => startup.completed
        /\ startup.pc = "done" => startup.completed

\* C13: when the ready callback raises, directly or from its awaitable,
\* start() raises that exception and none of the component's resources is
\* registered in the scope.
C13_FailingCallback ==
    (startup.calls > 0 /\ startup.cb \in {"raises", "awaitable_raises"}
        /\ startup.pc # "awaiting") =>
        /\ startup.pc = "failed"
        /\ startup.exc = "CallbackError"
        /\ comp = "failed"
        /\ resources = {}

C13_Witness ==
    /\ startup.cb = "awaitable_raises"
    /\ startup.calls = 1
    /\ startup.exc = "CallbackError"
    /\ comp = "failed"
    /\ resources = {}

PublishedFactories ==
    {ResourceObject(bind, t) :
        t \in resources \cap {"sessionmaker", "async_sessionmaker"}}

\* C14: on the synchronous and on the asynchronous path the ready callback
\* is called, and with the engine object and a session-factory object that
\* a lookup in the scope returns once start() has published them.
C14_CallbackGetsPublished ==
    startup.cb # "none" =>
        /\ startup.exc # "AttributeError"
        /\ comp = "started" =>
              /\ startup.calls = 1
              /\ startup.args[1] = ResourceObject(bind, EngineType(bind))
              /\ startup.args[2] \in PublishedFactories

\* C15: however start() fails, none of the component's resources is in the
\* scope afterwards; the scope never holds a strict, non-empty subset of
\* the resource set.
C15_AllOrNothing ==
    /\ comp = "failed" => resources = {}
    /\ resources \in {{}, Published(rev, IsAsyncEngine(bind))}

----------------------------------------------------------------------------
(* Properties of the constructor.                                          *)

ConfigurationErrors ==
    {"TypeError: Incompatible bind argument",
     "TypeError: both \"url\" and \"bind\" cannot be None"}

\* C21: a bind that is none of Connection, Engine, AsyncConnection and
\* AsyncEngine makes the constructor fail with a configuration error,
\* whatever the url, and no engine is created.
C21_UnrecognizedBind ==
    (ctor.state # "new" /\ ctor.arg \in {"other", "other_falsy"}) =>
        /\ ctor.state = "error"
        /\ ctor.error \in ConfigurationErrors
        /\ ctor.attempts = 0

BindSupplied == ctor.state # "new" /\ ctor.arg \in BindKinds

\* C22: a supplied bind is used as it is: no engine is created even when a
\* url is given too, no listener and no connect option is applied, the
\* resolved bind and the bind of the session factory are the supplied
\* object, and the path is synchronous exactly for a Connection or Engine.
C22_BindVerbatim ==
    BindSupplied =>
        /\ ctor.state = "ok"
        /\ ctor.attempts = 0
        /\ ctor.listeners = {}
        /\ ctor.connect_args = "unset"
        /\ bind = ctor.arg
        /\ ctor.factory_bind = BindObject(bind)
        /\ EngineObject(bind) =
              (IF ctor.arg \in {"Engine", "AsyncEngine"}
               THEN BindObject(bind) ELSE "bind.engine")
        /\ IsAsyncEngine(bind) <=> ctor.arg \notin {"Connection", "Engine"}
        /\ ("_async_sessionmaker" \in ctor.factories) <=> IsAsyncEngine(bind)

C22_Witness ==
    /\ BindSupplied
    /\ ctor.arg = "Connection"
    /\ ctor.url = "async"
    /\ ctor.opts.dialect = "sqlite"
    /\ ctor.state = "ok"

FromUrlCall ==
    /\ ctor.state # "new"
    /\ rev # "legacy"
    /\ ~Truthy(ctor.arg)
    /\ ctor.url # "none"

LastTried == ctor.tried[Len(ctor.tried)]

\* C23: built from a url, the engine is attempted in the preferred mode
\* first; the other mode is attempted, once, only when the driver refused
\* the first for the mode; on success there is one engine, and the session
\* factory is asynchronous exactly when the mode that succeeded is.
C23_PreferenceFallback ==
    FromUrlCall =>
        /\ Len(ctor.tried) \in {1, 2}
        /\ ctor.tried[1] = ctor.prefer_async
        /\ Len(ctor.tried) = 2 <=>
              CreateEngine(ctor.url, ctor.prefer_async) = "InvalidRequestError"
        /\ Len(ctor.tried) = 2 => ctor.tried[2] = ~ctor.prefer_async
        /\ ctor.state = "ok" =>
              /\ CreateEngine(ctor.url, LastTried) = "ok"
              /\ bind = EngineKind(LastTried)
              /\ ("_async_sessionmaker" \in ctor.factories) <=> LastTried

C23_Witness ==
    /\ FromUrlCall
    /\ ctor.url = "sync"
    /\ ctor.prefer_async
    /\ ctor.tried = <<TRUE, FALSE>>
    /\ bind = "Engine"

\* C24: an engine creation error other than the driver not supporting the
\* mode, and any error of the second attempt, leaves the constructor as it
\* was raised, with no further attempt and no session factory built.
C24_CreationErrorPropagates ==
    (ctor.state = "error" /\ ctor.tried # <<>>) =>
        /\ ctor.error = CreateEngine(ctor.url, LastTried)
        /\ Len(ctor.tried) <= 2
        /\ CreateEngine(ctor.url, ctor.tried[1]) # "InvalidRequestError" =>
              Len(ctor.tried) = 1
        /\ ctor.factories = {}
        /\ ctor.expire_on_commit = "unset"
        /\ bind = "unset"

C24_Witness ==
    /\ ctor.state = "error"
    /\ ctor.url = "invalid"
    /\ ctor.error = "ArgumentError"
    /\ Len(ctor.tried) = 1

\* C27: whatever session options the caller gives, expire_on_commit = True
\* included, the session factory is built with expire_on_commit disabled.
C27_ExpireOnCommitOff ==
    ctor.state = "ok" => ctor.expire_on_commit = "false"

\* C28: for a sqlite url check_same_thread is set to False exactly when the
\* caller gave no value for it, a value the caller gave is kept, and for
\* any other dialect the option is passed on as given.
C28_CheckSameThread ==
    ctor.tried # <<>> =>
        /\ (ctor.opts.dialect = "sqlite" /\ ctor.opts.check_same_thread = "absent")
              => ctor.connect_args = "false"
        /\ ctor.opts.check_same_thread # "absent"
              => ctor.connect_args = ctor.opts.check_same_thread
        /\ ctor.opts.dialect # "sqlite"
              => ctor.connect_args = ctor.opts.check_same_thread

C28_Witness ==
    /\ ctor.state = "ok"
    /\ ctor.tried # <<>>
    /\ ctor.opts.dialect = "sqlite"
    /\ ctor.opts.check_same_thread = "true"
    /\ ctor.connect_args = "true"

----------------------------------------------------------------------------
(* Properties of the published resources.                                  *)

\* C25: after a successful start() every resource of the instance is
\* registered under its resource_name and under no other name; an instance
\* does not collide with resources registered under a different name.
C25_ConfiguredName ==
    /\ comp = "started" =>
          startup.registered =
             {<<t, ctor.resource_name>> : t \in Published(rev, IsAsyncEngine(bind))}
    /\ startup.exc = "ResourceConflict" =>
          \E f \in foreign : f[2] = ctor.resource_name

C25_Witness ==
    /\ comp = "started"
    /\ ctor.resource_name = "alternate"
    /\ foreign = {<<"Engine", "default">>}
    /\ <<"Engine", "alternate">> \in startup.registered

\* C26: with an asynchronous engine start() publishes the asynchronous
\* session factory and a secondary synchronous one, and the secondary one is
\* the sync_session_class of the asynchronous factory.
C26_BothFactories ==
    (comp = "started" /\ IsAsyncEngine(bind)) =>
        /\ {"async_sessionmaker", "sessionmaker"} \subseteq resources
        /\ ctor.sync_session_class = ResourceObject(bind, "sessionmaker")

----------------------------------------------------------------------------
(* Properties of the sqlite listeners.                                     *)

SqliteFromUrl ==
    /\ ctor.state = "ok"
    /\ ctor.tried # <<>>
    /\ ctor.opts.dialect = "sqlite"

\* C29: an engine built from a sqlite url, by the synchronous or the
\* asynchronous driver, has both listeners before any session exists:
\* every connection has the driver's framing disabled and every transaction
\* begins with an explicit BEGIN, so that a savepoint is opened and rolled
\* back inside the outer transaction, which stays open and keeps its rows
\* uncommitted.
C29_SavepointHooks ==
    /\ SqliteFromUrl => ctor.listeners = {"connect", "begin"}
    /\ (\E s \in Sessions : sessions[s].state # "absent") => SqliteFromUrl
    /\ db.owner # 0 => ~db.framing
    /\ db.saTx => db.dbTx = "explicit"
    /\ db.writes # "committed"

C29_Witness ==
    /\ SqliteFromUrl
    /\ bind = "AsyncEngine"
    /\ db.owner # 0
    /\ db.nestedRollbacks = 1
    /\ db.saTx
    /\ db.dbTx = "explicit"
    /\ db.writes = "pending"

----------------------------------------------------------------------------
(* The lifecycle of a component instance.                                  *)

SessionCreated ==
    \E s \in Sessions : sessions[s].state = "absent" /\ sessions'[s].state # "absent"

----------------------------------------------------------------------------
(* The bind of the component and of its sessions.                          *)

\* C31: the bind is the one the constructor resolved, in every state (before
\* and after start(), while sessions are created and torn down), and every
\* session the component has created is bound to it and has the options the
\* constructor fixed.
C31_OneImmutableBind ==
    /\ bind = ctor.bind
    /\ \A s \in Sessions : sessions[s].state # "absent" =>
          /\ sessions[s].bind = bind
          /\ sessions[s].expire_on_commit = ctor.expire_on_commit
          /\ sessions[s].expire_on_commit = "false"

\* A session of a connection bind has been torn down and a later one is in
\* use.
C31_Witness ==
    /\ bind = "Connection"
    /\ comp = "started"
    /\ \E s, t \in Sessions :
          /\ s # t
          /\ sessions[s].closed /\ sessions[s].pc = "done"
          /\ sessions[t].state = "live" /\ sessions[t].inTx

----------------------------------------------------------------------------
(* Several sessions of one scope.                                          *)

\* C32: when a scope has been torn down and the hook of one of its sessions
\* raised, every other session of that scope has still had its own hook run
\* once, which made the call the scope's outcome asks for (commit on a normal
\* exit, rollback on an exception, none without a transaction) and closed it.
C32_IndependentFinalization ==
    \A s, t \in Sessions :
        (/\ s # t
         /\ sessions[s].state # "absent" /\ sessions[t].state # "absent"
         /\ sessions[s].owner = sessions[t].owner
         /\ scopes[sessions[s].owner].state = "closed"
         /\ sessions[t].hookExc # "none")
        => /\ sessions[s].runs = 1
           /\ sessions[s].closed
           /\ sessions[s].call =
                 TeardownCall(scopes[sessions[s].owner].exc, sessions[s].txAtEnd)
           /\ sessions[s].commits =
                 (IF sessions[s].call = "commit" THEN 1 ELSE 0)
           /\ sessions[s].rollbacks =
                 (IF sessions[s].call = "rollback" THEN 1 ELSE 0)

\* The hook of the session created last ran first and its commit raised; the
\* session created before it in the same scope was committed and closed.
C32_Witness ==
    /\ sessions[1].state # "absent" /\ sessions[2].state # "absent"
    /\ sessions[1].owner = sessions[2].owner
    /\ scopes[sessions[1].owner].state = "closed"
    /\ sessions[2].call = "commit" /\ sessions[2].hookExc = "dberror"
    /\ sessions[1].commits = 1 /\ sessions[1].persisted /\ sessions[1].closed

----------------------------------------------------------------------------
(* The size of the commit executor.                                        *)

\* C33: when the constructor was given no commit_executor_workers, the bound
\* on concurrently running synchronous commit / rollback calls is 5.
C33_DefaultWorkers ==
    (ctor.state = "ok" /\ ctor.opts.commit_executor_workers = 0)
        => workers = 5

----------------------------------------------------------------------------
(* A connection supplied as the bind.                                      *)

\* C38: with a Connection or AsyncConnection as the bind, the stop sequence
\* makes no call on the bind (it is not closed) and the pool of its engine
\* is never disposed; once the component has stopped, its sessions are
\* closed.
C38_ConnectionLeftOpen ==
    bind \in {"Connection", "AsyncConnection"} =>
        /\ StopCall(rev, bind) = "none"
        /\ disposals = 0
        /\ comp = "stopped" =>
              \A s \in Sessions : sessions[s].state # "absent" =>
                  sessions[s].closed /\ sessions[s].closes = 1

\* The v4 component was started around a connection and has stopped, the
\* part of start() after its yield has run, and a session of it was
\* committed and closed.
C38_Witness ==
    /\ bind = "Connection" /\ rev = "v4"
    /\ comp = "stopped"
    /\ StopBegun
    /\ \E s \in Sessions : sessions[s].commits = 1 /\ sessions[s].closed

----------------------------------------------------------------------------
(* Sessions and the disposal of the engine.                                *)

\* C36: once the component's stop sequence has begun, and whenever the pool
\* has been disposed, every session the component created (in the scope it
\* was started in or in a scope nested in it) has had its hook run to the
\* end and is closed, and no call of a session is queued or executing.
C36_SessionsBeforeDisposal ==
    (disposals > 0 \/ StopBegun) =>
        /\ queue = <<>>
        /\ \A w \in 1..MaxWorkers : busy[w] = 0
        /\ \A s \in Sessions : sessions[s].state # "absent" =>
              /\ sessions[s].runs = 1
              /\ sessions[s].pc = "done"
              /\ sessions[s].closed

\* The pool has been disposed after a session of the component's own scope
\* and a session of a nested scope were finalized, both with a transaction.
C36_Witness ==
    /\ disposals = 1
    /\ \E s, t \in Sessions :
          /\ sessions[s].state # "absent" /\ sessions[t].state # "absent"
          /\ sessions[s].owner = compScope
          /\ sessions[t].owner # compScope
          /\ sessions[s].txAtEnd /\ sessions[t].txAtEnd

----------------------------------------------------------------------------
(* One thread at a time on a session.                                      *)

\* C35: while a worker thread executes the commit or rollback of a session,
\* the hook of that session is still at its await and has not closed the
\* session on the loop thread, also when the task awaiting the call is
\* cancelled.
C35_OneThreadAtATime ==
    \A w \in 1..MaxWorkers : busy[w] # 0 =>
        /\ sessions[busy[w]].pc = "running"
        /\ sessions[busy[w]].closes = 0
        /\ ~sessions[busy[w]].closed

----------------------------------------------------------------------------
(* Termination of the finalization.                                        *)

\* C37: under fair scheduling of the hooks and the worker threads, and with
\* every dispatched call returning or raising, a session whose scope has
\* begun its teardown eventually has its hook completed and is closed, also
\* when more hooks are pending than there are worker threads.
C37_FinalizationTerminates ==
    \A s \in Sessions :
        (sessions[s].state # "absent"
            /\ scopes[sessions[s].owner].state = "closing")
        ~> (sessions[s].pc = "done" /\ sessions[s].closed
            /\ scopes[sessions[s].owner].state = "closed")

\* Every worker thread executes a call while the call of another hook waits
\* in the queue.
C37_Witness ==
    /\ queue # <<>>
    /\ \A w \in 1..MaxWorkers : busy[w] # 0
    /\ \E s, t \in Sessions :
          /\ s # t
          /\ sessions[s].pc = "queued" /\ sessions[t].pc = "running"
          /\ sessions[s].owner # sessions[t].owner

----------------------------------------------------------------------------
(* The legacy AsyncSession as a context manager.                           *)

\* C34: when the block of "with session:" or "async with session:" has been
\* left, the session was committed (once) if and only if the block raised
\* nothing and the session was active; it has been closed exactly once,
\* also when the commit raised; and what a block that raised had changed is
\* not persisted.
C34_ContextManager ==
    \A s \in Sessions : sessions[s].pc = "done" =>
        /\ sessions[s].commits =
              (IF sessions[s].blockExc = "none" /\ sessions[s].exitActive
               THEN 1 ELSE 0)
        /\ sessions[s].closed /\ sessions[s].closes = 1
        /\ ~sessions[s].inTx
        /\ sessions[s].blockExc # "none" => ~sessions[s].persisted
        /\ sessions[s].persisted =>
              sessions[s].callExc = "none" /\ sessions[s].txAtEnd

\* One session was left by "with" in a worker thread and its commit raised,
\* another by "async with" in the event-loop thread with an exception after
\* it had executed a statement; both are closed.
C34_Witness ==
    \E s, t \in Sessions :
        /\ sessions[s].pc = "done" /\ sessions[s].mode = "with"
        /\ sessions[s].thread = 1
        /\ sessions[s].callExc = "dberror" /\ sessions[s].closed
        /\ sessions[t].pc = "done" /\ sessions[t].mode = "async with"
        /\ sessions[t].thread = 0
        /\ sessions[t].blockExc = "error" /\ sessions[t].txAtEnd
        /\ sessions[t].closed /\ ~sessions[t].persisted

----------------------------------------------------------------------------
(* The connection resource of the legacy component.                        *)

\* C39: a connection resource has a transaction from its creation on; once
\* its scope is torn down, the transaction was committed (once, on a worker
\* thread of the commit executor) if and only if the scope ended without an
\* exception, and on every path, a failing commit included, the
\* connection's ctx entry is gone and the connection is closed, a
\* transaction that was not committed being discarded with its changes.
C39_ConnectionResource ==
    \A c \in Scopes : db[c].state # "absent" =>
        /\ db[c].tx # "none"
        /\ scopes[c].state = "open" => db[c].tx = "begun" /\ db[c].ctx = c
        /\ scopes[c].state = "closed" =>
              /\ db[c].commits = (IF scopes[c].exc = "none" THEN 1 ELSE 0)
              /\ db[c].commits = 1 => db[c].thread \in 1..MaxWorkers
              /\ db[c].commits = 0 => db[c].thread = -1
              /\ db[c].ctx = 0
              /\ db[c].state = "closed" /\ db[c].closes = 1
              /\ db[c].tx \in {"committed", "discarded"}
              /\ db[c].tx = "committed" <=>
                    (scopes[c].exc = "none" /\ db[c].callExc = "none")
              /\ db[c].tx = "discarded" => ~db[c].persisted

\* The commit of one scope's connection raised and the connection was
\* closed with its changes discarded; another scope ended with an exception
\* and its connection was closed without a commit.
C39_Witness ==
    \E c, d \in Scopes :
        /\ scopes[c].state = "closed" /\ scopes[d].state = "closed"
        /\ db[c].callExc = "dberror" /\ db[c].state = "closed"
        /\ db[c].tx = "discarded" /\ db[c].ctx = 0
        /\ scopes[d].exc = "error" /\ db[d].state = "closed"
        /\ db[d].commits = 0 /\ db[d].tx = "discarded"

====
